---- MODULE Spec2Model ----
(***************************************************************************)
(* Bleda: the gameplay simulation core of src/src/game.ts (class Game,     *)
(* second listing, lines 1515-3106), src/src/target.ts, the obstacle       *)
(* classes in src/src/main.ts and the PowerUp class in                     *)
(* src/unnamed/part_004.                                                   *)
(*                                                                         *)
(* Conventions                                                             *)
(*   - wall-clock times (Date.now()) are integers in milliseconds;         *)
(*   - the combo multiplier is a multiple of 0.5 and is held in tenths     *)
(*     (Scale = 10, so 1.0 is 10 and 2.5 is 25);                           *)
(*   - angles are integers in milliradians (2*pi = 6283), target sizes     *)
(*     integers in 1/10000;                                                *)
(*   - Math.random() is a draw r from RandomSamples, standing for r/100;   *)
(*   - 3D geometry (arrow, player, obstacle and pickup positions) is not   *)
(*     stored: every distance or position a test of the code reads is an   *)
(*     input of the step that evaluates it.                                *)
(***************************************************************************)
EXTENDS Integers, Sequences, FiniteSets, TLC

VARIABLES
    now,              \* Date.now()
    clockTime,        \* THREE.Clock.oldTime (0 = not started)
    pc,               \* position inside Game.animate
    arrowIdx,         \* index of the outer forEach of checkCollisions
    targets,          \* Game.targets
    arrows,           \* Game.arrows (the pool)
    powerUps,         \* Game.powerUps (pickups)
    activePowerUps,   \* Game.activePowerUps (effect ledger)
    obstacles,        \* Game.obstacles
    timers,           \* pending setTimeout callbacks of spawnSpecialTargets
    score,            \* Game.score
    scoreMultiplier,  \* Game.scoreMultiplier
    comboCount,       \* Game.comboCount
    comboMultiplier,  \* Game.comboMultiplier, in tenths
    lastHitTime,      \* Game.lastHitTime
    isStunned,        \* Game.isStunned
    stunnedUntil,     \* Game.stunnedUntil
    lastArrowShot,    \* Game.lastArrowShot
    lastTargetCheck,  \* Game.lastTargetCheck
    lastObstacleSpawn,\* Game.lastObstacleSpawn
    lastPowerUpSpawn, \* Game.lastPowerUpSpawn
    shotsFired,       \* UIManager.shotsFired
    shotsHit,         \* UIManager.shotsHit
    lastHit,          \* the direct hit of the running frame: what it reported
                      \* to UIManager.showTargetHit, the score added by its
                      \* chain, and whether createExplosionEffect ran
    deltaTime,        \* local deltaTime of the running animate frame, ms
    arrowZ,           \* arrow.mesh.position.z as read by the last miss test
                      \* of the running frame (0 = no miss test yet)
    magneticForce,    \* the last call of MagneticTarget.getMagneticForce:
                      \* its target, the arrow's offset and the result
    scenario          \* the slice of the environment this run explores

vars == << now, clockTime, pc, arrowIdx, targets, arrows, powerUps,
           activePowerUps, obstacles, timers, score, scoreMultiplier,
           comboCount, comboMultiplier, lastHitTime, isStunned, stunnedUntil,
           lastArrowShot, lastTargetCheck, lastObstacleSpawn,
           lastPowerUpSpawn, shotsFired, shotsHit, lastHit, deltaTime, arrowZ,
           magneticForce, scenario >>

----------------------------------------------------------------------------
(* Bounds of the model *)

MaxArrows == 2            \* largest arrow pool explored
MaxPickups == 4           \* largest pickup list explored
MaxCombo == 10            \* longest combo explored by the combo runs

(* Input samples *)
StartTime == 100000                  \* Date.now() at construction
RandomSamples == {0, 35, 50, 75, 99} \* Math.random() * 100
ArrowZSamples == {-25, -15, -5}      \* arrow.mesh.position.z after a tick
DistanceSamples == {1000, 5499, 5500} \* arrow to target distance, 1/10000

(* A run explores one slice of the environment: which random spawn sources
   are live (the chance draw of a source that is not live always comes out
   as "no spawn"), how the wall clock advances, for how long, and how many
   fire intents the player makes. *)
Scenarios == { "powerUps", "obstacles", "wheel", "expiry", "ledger",
               "reuse", "rapid" }

PowerUpsHorizon == 1000   \* wall-clock horizon after construction, ms
ObstaclesHorizon == 3000
WheelHorizon == 12000
ExpiryHorizon == 5000
ComboHorizon == 3000
PowerUpsShots == 3        \* accepted fire intents explored
ObstaclesShots == 1
WheelShots == 1
ExpiryShots == 1
VariantsHorizon == 6000
LedgerHorizon == 25000
ReuseHorizon == 10000
RapidHorizon == 500
MysteryHorizon == 1000
VariantsShots == 3
LedgerShots == 1
ReuseShots == 2
RapidShots == 2
MysteryShots == 1
CourseHorizon == 1000
CourseShots == 1
LifetimeHorizon == 25000
LifetimeShots == 1
DrawHorizon == 3000
DrawShots == 1
FlockHorizon == 8000
FlockShots == 1
MaxDraw == 99            \* Math.random() in hundredths: 0.00 .. 0.99
OffsetStep == 1000       \* grid of arrow offsets fed to getMagneticForce
MaxOffsetSteps == 32

Sources(s) ==
    CASE s = "powerUps"  -> {"powerUps"}
      [] s = "obstacles" -> {"obstacles"}
      [] s = "ledger"    -> {"powerUps"}
      [] s = "reuse"     -> {"powerUps"}
      [] s = "rapid"     -> {"powerUps"}
      [] s = "mystery"   -> {"powerUps"}
      [] s = "course"    -> {"obstacles"}
      [] s = "flock"     -> {"obstacles"}
      [] OTHER           -> {}

TimeSteps(s) ==                      \* wall-clock advance between handlers
    CASE s = "powerUps"  -> {500}
      [] s = "obstacles" -> {1000}
      [] s = "wheel"     -> {3000}
      [] s = "expiry"    -> {1000, 4000}
      [] s = "variants"  -> {3000}
      [] s = "ledger"    -> {5000}
      [] s = "reuse"     -> {5000}
      [] s = "rapid"     -> {100, 150}
      [] s = "mystery"   -> {500}
      [] s = "course"    -> {1000}
      [] s = "lifetime"  -> {5000}
      [] s = "draw"      -> {3000}
      [] s = "flock"     -> {8000}
      [] OTHER           -> {400, 500}

MaxElapsed(s) ==
    CASE s = "powerUps"  -> PowerUpsHorizon
      [] s = "obstacles" -> ObstaclesHorizon
      [] s = "wheel"     -> WheelHorizon
      [] s = "expiry"    -> ExpiryHorizon
      [] s = "variants"  -> VariantsHorizon
      [] s = "ledger"    -> LedgerHorizon
      [] s = "reuse"     -> ReuseHorizon
      [] s = "rapid"     -> RapidHorizon
      [] s = "mystery"   -> MysteryHorizon
      [] s = "course"    -> CourseHorizon
      [] s = "lifetime"  -> LifetimeHorizon
      [] s = "draw"      -> DrawHorizon
      [] s = "flock"     -> FlockHorizon
      [] OTHER           -> ComboHorizon

MaxShots(s) ==
    CASE s = "powerUps"  -> PowerUpsShots
      [] s = "obstacles" -> ObstaclesShots
      [] s = "wheel"     -> WheelShots
      [] s = "expiry"    -> ExpiryShots
      [] s = "variants"  -> VariantsShots
      [] s = "ledger"    -> LedgerShots
      [] s = "reuse"     -> ReuseShots
      [] s = "rapid"     -> RapidShots
      [] s = "mystery"   -> MysteryShots
      [] s = "course"    -> CourseShots
      [] s = "lifetime"  -> LifetimeShots
      [] s = "draw"      -> DrawShots
      [] s = "flock"     -> FlockShots
      [] OTHER           -> 0

AngleSamples(s) ==                   \* Math.random() * 2*pi, mrad
    CASE s = "wheel"    -> {1571, 2356, 3142, 3927, 4712}
      [] s = "variants" -> {400, 3142}
      [] s = "ledger"   -> {3142}
      [] s = "reuse"    -> {3142}
      [] s = "rapid"    -> {3142}
      [] s = "mystery"  -> {2356, 3142, 3927}
      [] s = "course"   -> {3142}
      [] s = "lifetime" -> {3142}
      [] s = "draw"     -> {3142}
      [] s = "flock"    -> {3142}
      [] OTHER          -> {400, 1571, 3142}

TypeDraws(s) ==                      \* the type draw of spawnTarget
    CASE s = "wheel"    -> {0, 75}
      [] s = "variants" -> {0}
      [] s = "ledger"   -> {0}
      [] s = "reuse"    -> {0}
      [] s = "rapid"    -> {0}
      [] s = "mystery"  -> {0}
      [] s = "course"   -> {0}
      [] s = "lifetime" -> {0}
      [] s = "draw"     -> 0..MaxDraw
      [] s = "flock"    -> {0}
      [] OTHER          -> RandomSamples

PlayerRoams(s) == s # "mystery"       \* the player walks onto pickups

NoSpawnDraw == 99
PowerUpChanceDraws ==
    IF "powerUps" \in Sources(scenario) THEN RandomSamples ELSE {NoSpawnDraw}
ObstacleChanceDraws ==
    IF "obstacles" \in Sources(scenario) THEN RandomSamples ELSE {NoSpawnDraw}

----------------------------------------------------------------------------
(* Program constants (src/src/constants.ts) *)

Scale == 10                          \* tenths, for the combo multiplier
TWO_PI == 6283                       \* Math.PI * 2, mrad

arrowCooldown == 500
ARROW_COOLDOWN_MULTIPLIER_PCT == 30  \* 0.3
POWERUP_SPAWN_INTERVAL == 15000
POWERUP_SPAWN_CHANCE == 70           \* 0.7
MAX_ACTIVE_POWERUPS == 3
MAGNETIC_RANGE == 30000              \* 3, in 1/10000
MAGNETIC_FORCE == 30000              \* 0.3, in 1/100000
RAPID_FIRE_DURATION == 8000
EXPLOSIVE_ARROWS_DURATION == 10000
SCORE_MULTIPLIER_DURATION == 12000
SCORE_MULTIPLIER_MULTIPLIER == 3

OBSTACLE_SPAWN_INTERVAL == 8000
OBSTACLE_SPAWN_CHANCE == 60          \* 0.6
MAX_ACTIVE_OBSTACLES == 5
STUN_DURATION == 2000
SCORE_PENALTY == 5
FLOCK_SIZE_MIN == 1
FLOCK_SIZE_MAX == 3

MAX_TARGETS_ON_WHEEL == 5
SPAWN_CHECK_INTERVAL == 3000
COMBO_TIME_WINDOW == 2000
COMBO_MULTIPLIER_INCREMENT == 5      \* 0.5 in tenths
MAX_COMBO_MULTIPLIER == 50           \* 5 in tenths
MinAngleDistance == 785              \* Math.PI / 4, mrad
SPLIT_ANGLE == 524                   \* Math.PI / 6, mrad
MAX_SPLITS == 2
SPLIT_SIZE_MULTIPLIER_PCT == 70      \* 0.7
MAX_MISSES == 3
SHRINK_RATE_PCT == 85                \* 0.85
SHRINKING_SIZE_START == 6000         \* 0.6
SHRINKING_SIZE_MIN == 2000           \* 0.2
SHRINKING_POINTS_MAX == 75
SHRINKING_POINTS_MIN == 10
SPEED_MULTIPLIER_X10 == 25           \* 2.5
GHOST_PHASE_DURATION == 3000
SpawnAttempts == 10
HIT_BUFFER == 2000                   \* 0.2, the buffer of checkCollision

PowerUpTypes == << "RAPID_FIRE", "EXPLOSIVE_ARROWS", "SCORE_MULTIPLIER" >>
ObstacleTypes == << "FLYING_ROCK", "TREE", "BIRD" >>
TargetTypes == { "STANDARD", "GOLD", "SPEED", "BONUS", "SHRINKING", "SPLIT",
                 "MYSTERY", "GHOST", "MAGNETIC", "EXPLOSIVE" }

(* TARGET_CONFIG.<type>: POINTS || 0, SIZE, LIFETIME || null (0 = null) *)
TargetConfig(type) ==
    CASE type = "STANDARD"  -> [POINTS |-> 10,  SIZE |-> 4000, LIFETIME |-> 0]
      [] type = "GOLD"      -> [POINTS |-> 50,  SIZE |-> 3200, LIFETIME |-> 15000]
      [] type = "SPEED"     -> [POINTS |-> 25,  SIZE |-> 2400, LIFETIME |-> 20000]
      [] type = "BONUS"     -> [POINTS |-> 100, SIZE |-> 4800, LIFETIME |-> 5000]
      [] type = "SHRINKING" -> [POINTS |-> 0,   SIZE |-> 0,    LIFETIME |-> 0]
      [] type = "SPLIT"     -> [POINTS |-> 30,  SIZE |-> 5000, LIFETIME |-> 0]
      [] type = "MYSTERY"   -> [POINTS |-> 0,   SIZE |-> 4000, LIFETIME |-> 10000]
      [] type = "GHOST"     -> [POINTS |-> 40,  SIZE |-> 3500, LIFETIME |-> 25000]
      [] type = "MAGNETIC"  -> [POINTS |-> 35,  SIZE |-> 4000, LIFETIME |-> 20000]
      [] type = "EXPLOSIVE" -> [POINTS |-> 20,  SIZE |-> 4500, LIFETIME |-> 15000]

(* the targetTypes table of spawnTarget: type and SPAWN_CHANCE * 100 *)
SpawnTable == <<
    [type |-> "GOLD",      chance |-> 30],
    [type |-> "SPEED",     chance |-> 40],
    [type |-> "BONUS",     chance |-> 10],
    [type |-> "SHRINKING", chance |-> 25],
    [type |-> "SPLIT",     chance |-> 20],
    [type |-> "MYSTERY",   chance |-> 15],
    [type |-> "GHOST",     chance |-> 20],
    [type |-> "MAGNETIC",  chance |-> 25],
    [type |-> "EXPLOSIVE", chance |-> 20] >>

(* the rewards table of MysteryTarget.onHit *)
MysteryRewards == <<
    [points |-> 25,  kind |-> "points"],
    [points |-> 50,  kind |-> "points"],
    [points |-> 100, kind |-> "points"],
    [points |-> 10,  kind |-> "powerUp"],
    [points |-> 0,   kind |-> "multiball"] >>

----------------------------------------------------------------------------
(* Arithmetic helpers *)

Min(a, b) == IF a < b THEN a ELSE b
Max(a, b) == IF a > b THEN a ELSE b
Abs(a) == IF a < 0 THEN 0 - a ELSE a

(* Math.round(num / den) for num >= 0, den > 0: floor(x + 0.5) *)
Round(num, den) == (2 * num + den) \div (2 * den)

(* Math.floor(Math.random() * n) for the draw r *)
FloorRandom(r, n) == (r * n) \div 100

(* the elements of s at the indices in K, in order (Array.filter) *)
SelectIdx(s, K) ==
    LET F[i \in 0..Len(s)] ==
            IF i = 0 THEN << >>
            ELSE IF i \in K THEN Append(F[i - 1], s[i]) ELSE F[i - 1]
    IN  F[Len(s)]

----------------------------------------------------------------------------
(* Targets (src/src/target.ts) *)

(* ShrinkingTarget.updatePoints, currentSize in 1/10000 *)
ShrinkingPoints(currentSize) ==
    Round(SHRINKING_POINTS_MIN * (SHRINKING_SIZE_START - SHRINKING_SIZE_MIN)
            + (currentSize - SHRINKING_SIZE_MIN)
                * (SHRINKING_POINTS_MAX - SHRINKING_POINTS_MIN),
          SHRINKING_SIZE_START - SHRINKING_SIZE_MIN)

(* SplitTarget constructor: SIZE * 0.7 ^ splitCount *)
RECURSIVE SplitSize(_)
SplitSize(splitCount) ==
    IF splitCount = 0 THEN TargetConfig("SPLIT").SIZE
    ELSE (SplitSize(splitCount - 1) * SPLIT_SIZE_MULTIPLIER_PCT) \div 100

(* new XTarget(radius, angle [, splitCount]) constructed at time t *)
NewTarget(type, angle, splitCount, t) ==
    [ type       |-> type,
      isActive   |-> TRUE,
      points     |-> IF type = "SHRINKING"
                     THEN ShrinkingPoints(SHRINKING_SIZE_START)
                     ELSE TargetConfig(type).POINTS,
      size       |-> CASE type = "SHRINKING" -> SHRINKING_SIZE_START
                       [] type = "SPLIT"     -> SplitSize(splitCount)
                       [] OTHER              -> TargetConfig(type).SIZE,
      wheelAngle |-> angle,
      spawnTime  |-> t,
      lifetime   |-> TargetConfig(type).LIFETIME,
      splitCount |-> splitCount,
      missCount  |-> 0,
      phaseTime  |-> 0,
      isVisible  |-> TRUE ]

(* Target.deactivate *)
Deactivate(t) == [t EXCEPT !.isActive = FALSE]

(* UpdateTarget that advances the stored angle of every variant *)
UpdateTargetAllAdvance(t, dt, time) ==
    IF ~t.isActive THEN t
    ELSE LET moved == [t EXCEPT !.wheelAngle =
                          @ + (dt * (SPEED_MULTIPLIER_X10 - 10)) \div 10]
         IN  IF moved.lifetime # 0 /\ time - moved.spawnTime >= moved.lifetime
             THEN Deactivate(moved)
             ELSE IF moved.type = "GHOST"
                  THEN IF moved.phaseTime + dt >= GHOST_PHASE_DURATION
                       THEN [moved EXCEPT !.phaseTime = 0,
                                          !.isVisible = ~moved.isVisible]
                       ELSE [moved EXCEPT !.phaseTime = @ + dt]
                  ELSE moved

(* UpdateTarget whose age test is strict *)
UpdateTargetLate(t, dt, time) ==
    IF ~t.isActive THEN t
    ELSE LET moved == IF t.type = "SPEED"
                      THEN [t EXCEPT !.wheelAngle =
                               @ + (dt * (SPEED_MULTIPLIER_X10 - 10)) \div 10]
                      ELSE t
         IN  IF moved.lifetime # 0 /\ time - moved.spawnTime > moved.lifetime
             THEN Deactivate(moved)
             ELSE IF moved.type = "GHOST"
                  THEN IF moved.phaseTime + dt >= GHOST_PHASE_DURATION
                       THEN [moved EXCEPT !.phaseTime = 0,
                                          !.isVisible = ~moved.isVisible]
                       ELSE [moved EXCEPT !.phaseTime = @ + dt]
                  ELSE moved

(* Target.update / SpeedTarget.update with Ghost.updateSpecific; dt in ms *)
UpdateTarget(t, dt, time) ==
    IF ~t.isActive THEN t
    ELSE LET moved == IF t.type = "SPEED"
                      THEN [t EXCEPT !.wheelAngle =
                               @ + (dt * (SPEED_MULTIPLIER_X10 - 10)) \div 10]
                      ELSE t
         IN  IF moved.lifetime # 0 /\ time - moved.spawnTime >= moved.lifetime
             THEN Deactivate(moved)
             ELSE IF moved.type = "GHOST"
                  THEN IF moved.phaseTime + dt >= GHOST_PHASE_DURATION
                       THEN [moved EXCEPT !.phaseTime = 0,
                                          !.isVisible = ~moved.isVisible]
                       ELSE [moved EXCEPT !.phaseTime = @ + dt]
                  ELSE moved

(* OnMiss that deactivates one miss late *)
OnMissLate(t) ==
    IF t.type # "SHRINKING" THEN t
    ELSE IF t.missCount + 1 > MAX_MISSES
         THEN [Deactivate(t) EXCEPT !.missCount = @ + 1]
         ELSE LET shrunk == Max((t.size * SHRINK_RATE_PCT) \div 100,
                                SHRINKING_SIZE_MIN)
              IN  [t EXCEPT !.missCount = @ + 1,
                            !.size = shrunk,
                            !.points = ShrinkingPoints(shrunk)]

(* Target.onMiss / ShrinkingTarget.onMiss *)
OnMiss(t) ==
    IF t.type # "SHRINKING" THEN t
    ELSE IF t.missCount + 1 >= MAX_MISSES
         THEN [Deactivate(t) EXCEPT !.missCount = @ + 1]
         ELSE LET shrunk == Max((t.size * SHRINK_RATE_PCT) \div 100,
                                SHRINKING_SIZE_MIN)
              IN  [t EXCEPT !.missCount = @ + 1,
                            !.size = shrunk,
                            !.points = ShrinkingPoints(shrunk)]

(* Target.checkCollision for an arrow at the given distance from the
   target, in 1/10000 *)
TargetCheckCollision(t, distance) ==
    IF ~t.isActive THEN FALSE ELSE distance < t.size + HIT_BUFFER

(* CheckCollision of a Ghost target that ignores isVisible *)
CheckCollisionIgnoringVisibility(t, distance) ==
    TargetCheckCollision(t, distance)

(* target.checkCollision: GhostTarget overrides it, the other variants
   inherit Target.checkCollision *)
CheckCollision(t, distance) ==
    IF t.type = "GHOST"
    THEN IF ~t.isVisible THEN FALSE ELSE TargetCheckCollision(t, distance)
    ELSE TargetCheckCollision(t, distance)

(* OnHitResult whose Split target still splits at depth MAX_SPLITS *)
OnHitResultSplitsDeeper(t, r) ==
    CASE t.type = "SPLIT" ->
           [points  |-> t.points,
            special |-> IF t.splitCount <= MAX_SPLITS THEN "split" ELSE "none"]
      [] t.type = "MYSTERY" ->
           LET reward == MysteryRewards[FloorRandom(r, Len(MysteryRewards)) + 1]
           IN  [points |-> reward.points, special |-> reward.kind]
      [] t.type = "EXPLOSIVE" ->
           [points |-> t.points, special |-> "explosive"]
      [] OTHER ->
           [points |-> t.points, special |-> "none"]

(* the result of onHit for the draw r: points and the special effect *)
OnHitResult(t, r) ==
    CASE t.type = "SPLIT" ->
           [points  |-> t.points,
            special |-> IF t.splitCount < MAX_SPLITS THEN "split" ELSE "none"]
      [] t.type = "MYSTERY" ->
           LET reward == MysteryRewards[FloorRandom(r, Len(MysteryRewards)) + 1]
           IN  [points |-> reward.points, special |-> reward.kind]
      [] t.type = "EXPLOSIVE" ->
           [points |-> t.points, special |-> "explosive"]
      [] OTHER ->
           [points |-> t.points, special |-> "none"]

(* the two children of a hit Split target, created at time t *)
SplitChildren(parent, t) ==
    << NewTarget("SPLIT", parent.wheelAngle - SPLIT_ANGLE, parent.splitCount + 1, t),
       NewTarget("SPLIT", parent.wheelAngle + SPLIT_ANGLE, parent.splitCount + 1, t) >>

----------------------------------------------------------------------------
(* Game.spawnTarget (src/src/game.ts) *)

NoAngle == -1
NoType == "NONE"

(* IsValidAngle without the test against 2*pi - minAngleDistance *)
IsValidAngleNoWrap(testAngle, tgts) ==
    \A i \in 1..Len(tgts) :
        LET angleDiff == Abs(testAngle - tgts[i].wheelAngle)
        IN  ~(angleDiff < MinAngleDistance)

(* the inner loop over occupiedAngles for one testAngle *)
IsValidAngle(testAngle, tgts) ==
    \A i \in 1..Len(tgts) :
        LET angleDiff == Abs(testAngle - tgts[i].wheelAngle)
        IN  ~(angleDiff < MinAngleDistance \/ angleDiff > TWO_PI - MinAngleDistance)

(* the outcomes of the rejection loop: the first valid testAngle of at most
   SpawnAttempts draws, or null when every attempt drew an invalid angle *)
ValidAngleChoices(tgts) ==
    { a \in AngleSamples(scenario) : IsValidAngle(a, tgts) }
      \cup (IF SpawnAttempts > 0
               /\ \A a \in AngleSamples(scenario) : IsValidAngle(a, tgts)
            THEN {} ELSE {NoAngle})

(* the cumulative-chance loop over targetTypes for the draw random *)
RECURSIVE SelectTypeFrom(_, _, _)
SelectTypeFrom(i, cumulativeChance, random) ==
    IF i > Len(SpawnTable) THEN NoType
    ELSE IF random <= cumulativeChance + SpawnTable[i].chance
         THEN SpawnTable[i].type
         ELSE SelectTypeFrom(i + 1, cumulativeChance + SpawnTable[i].chance, random)

SelectType(random) == SelectTypeFrom(1, 0, random)

(* SpawnTarget that falls back to angle 0 when no valid angle was found *)
SpawnTargetForced(tgts, validAngle, random, t) ==
    IF Len(tgts) >= MAX_TARGETS_ON_WHEEL THEN tgts
    ELSE IF SelectType(random) = NoType THEN tgts
    ELSE Append(tgts, NewTarget(SelectType(random),
                                IF validAngle = NoAngle THEN 0 ELSE validAngle,
                                0, t))

(* SpawnTarget without the test against MAX_TARGETS_ON_WHEEL *)
SpawnTargetUncapped(tgts, validAngle, random, t) ==
    IF validAngle = NoAngle THEN tgts
    ELSE IF SelectType(random) = NoType THEN tgts
    ELSE Append(tgts, NewTarget(SelectType(random), validAngle, 0, t))

(* spawnTarget for the drawn angle and type draw, at time t *)
SpawnTarget(tgts, validAngle, random, t) ==
    IF Len(tgts) >= MAX_TARGETS_ON_WHEEL THEN tgts
    ELSE IF validAngle = NoAngle THEN tgts
    ELSE IF SelectType(random) = NoType THEN tgts
    ELSE Append(tgts, NewTarget(SelectType(random), validAngle, 0, t))

----------------------------------------------------------------------------
(* Scoring and combo (src/src/game.ts) *)

(* ScoreGain with the score multiplier left out of the product *)
ScoreGainWithoutScoreMultiplier(points, sm, cm) == Round(points * cm, Scale)

(* Math.round(points * scoreMultiplier * comboMultiplier) *)
ScoreGain(points, sm, cm) == Round(points * sm * cm, Scale)

(* UpdateCombo with the window test made strict *)
UpdateComboStrictWindow(cc, cm, lht, t) ==
    IF t - lht < COMBO_TIME_WINDOW
    THEN [comboCount      |-> cc + 1,
          comboMultiplier |-> Min(Scale + (cc + 1) * COMBO_MULTIPLIER_INCREMENT,
                                  MAX_COMBO_MULTIPLIER),
          lastHitTime     |-> t]
    ELSE [comboCount |-> 1, comboMultiplier |-> Scale, lastHitTime |-> t]

(* UpdateCombo computing the multiplier from the count before the increment *)
UpdateComboFromOldCount(cc, cm, lht, t) ==
    IF t - lht <= COMBO_TIME_WINDOW
    THEN [comboCount      |-> cc + 1,
          comboMultiplier |-> Min(Scale + cc * COMBO_MULTIPLIER_INCREMENT,
                                  MAX_COMBO_MULTIPLIER),
          lastHitTime     |-> t]
    ELSE [comboCount |-> 1, comboMultiplier |-> Scale, lastHitTime |-> t]

(* UpdateCombo without the clamp at MAX_COMBO_MULTIPLIER *)
UpdateComboUnclamped(cc, cm, lht, t) ==
    IF t - lht <= COMBO_TIME_WINDOW
    THEN [comboCount      |-> cc + 1,
          comboMultiplier |-> Scale + (cc + 1) * COMBO_MULTIPLIER_INCREMENT,
          lastHitTime     |-> t]
    ELSE [comboCount |-> 1, comboMultiplier |-> Scale, lastHitTime |-> t]

(* Game.updateCombo at time t *)
UpdateCombo(cc, cm, lht, t) ==
    IF t - lht <= COMBO_TIME_WINDOW
    THEN [comboCount      |-> cc + 1,
          comboMultiplier |-> Min(Scale + (cc + 1) * COMBO_MULTIPLIER_INCREMENT,
                                  MAX_COMBO_MULTIPLIER),
          lastHitTime     |-> t]
    ELSE [comboCount |-> 1, comboMultiplier |-> Scale, lastHitTime |-> t]

----------------------------------------------------------------------------
(* Power-ups (src/src/game.ts, src/unnamed/part_004) *)

HasActivePowerUp(type) ==
    \E i \in 1..Len(activePowerUps) : activePowerUps[i].type = type

GetPowerUpDuration(type) ==
    CASE type = "RAPID_FIRE"       -> RAPID_FIRE_DURATION
      [] type = "EXPLOSIVE_ARROWS" -> EXPLOSIVE_ARROWS_DURATION
      [] type = "SCORE_MULTIPLIER" -> SCORE_MULTIPLIER_DURATION

ActiveCount(s) == Cardinality({ i \in 1..Len(s) : s[i].isActive })

(* SpawnPowerUp without the test against MAX_ACTIVE_POWERUPS *)
SpawnPowerUpUncapped(pups, r1, r2) ==
    IF r1 > POWERUP_SPAWN_CHANCE THEN pups
    ELSE Append(pups, [type     |-> PowerUpTypes[FloorRandom(r2, Len(PowerUpTypes)) + 1],
                       isActive |-> TRUE])

(* Game.spawnPowerUp for the chance draw r1 and the type draw r2 *)
SpawnPowerUp(pups, r1, r2) ==
    IF ActiveCount(pups) >= MAX_ACTIVE_POWERUPS THEN pups
    ELSE IF r1 > POWERUP_SPAWN_CHANCE THEN pups
    ELSE Append(pups, [type     |-> PowerUpTypes[FloorRandom(r2, Len(PowerUpTypes)) + 1],
                       isActive |-> TRUE])

(* the effect appended by Game.activatePowerUp at time t *)
NewEffect(type, t) ==
    [type |-> type, startTime |-> t, duration |-> GetPowerUpDuration(type)]

(* the fields of Game that an obstacle pass can reach *)
PlayerState ==
    [ score |-> score, isStunned |-> isStunned, stunnedUntil |-> stunnedUntil,
      comboCount |-> comboCount, comboMultiplier |-> comboMultiplier,
      lastHitTime |-> lastHitTime ]

(* HandleObstacleCollision without the floor of the score at 0 *)
HandleObstacleCollisionUnfloored(g, t) ==
    [g EXCEPT !.isStunned = TRUE,
              !.stunnedUntil = t + STUN_DURATION,
              !.score = g.score - SCORE_PENALTY]

(* HandleObstacleCollision that also breaks the running combo *)
HandleObstacleCollisionBreaksCombo(g, t) ==
    [g EXCEPT !.isStunned = TRUE,
              !.stunnedUntil = t + STUN_DURATION,
              !.score = Max(0, g.score - SCORE_PENALTY),
              !.comboCount = 0,
              !.comboMultiplier = Scale]

(* Game.handleObstacleCollision at time t, on the player state g *)
HandleObstacleCollision(g, t) ==
    [g EXCEPT !.isStunned = TRUE,
              !.stunnedUntil = t + STUN_DURATION,
              !.score = Max(0, g.score - SCORE_PENALTY)]

(* k collisions of one obstacle pass, in list order *)
RECURSIVE HandleCollisions(_, _, _)
HandleCollisions(g, k, t) ==
    IF k = 0 THEN g
    ELSE HandleCollisions(HandleObstacleCollision(g, t), k - 1, t)

(* n copies of x *)
Copies(x, n) == [i \in 1..n |-> x]

(* Game.spawnObstacle for the chance draw r1, the type draw r2 and the
   flock-size draw r3 *)
SpawnObstacle(obs, r1, r2, r3) ==
    IF ActiveCount(obs) >= MAX_ACTIVE_OBSTACLES THEN obs
    ELSE IF r1 > OBSTACLE_SPAWN_CHANCE THEN obs
    ELSE LET randomType == ObstacleTypes[FloorRandom(r2, Len(ObstacleTypes)) + 1]
             flockSize == FLOCK_SIZE_MIN
                            + FloorRandom(r3, FLOCK_SIZE_MAX - FLOCK_SIZE_MIN + 1)
         IN  obs \o Copies([type |-> randomType, isActive |-> TRUE],
                           IF randomType = "BIRD" THEN flockSize ELSE 1)

----------------------------------------------------------------------------
(* MagneticTarget.getMagneticForce on the line through the arrow and the
   target: offset = arrow position - target position, distance = |offset|,
   force > 0 points along the axis, so a force toward the target has the
   sign opposite to the offset *)
Null == [null |-> TRUE, force |-> 0]

(* GetMagneticForce with both distance bounds inclusive *)
GetMagneticForceInclusive(t, offset) ==
    LET distance == Abs(offset)
    IN  IF ~t.isActive THEN Null
        ELSE IF distance <= MAGNETIC_RANGE /\ distance >= t.size
        THEN [null  |-> FALSE,
              force |-> (IF offset > 0 THEN -1 ELSE 1) *
                        ((MAGNETIC_FORCE * (MAGNETIC_RANGE - distance))
                            \div MAGNETIC_RANGE)]
        ELSE Null

GetMagneticForce(t, offset) ==
    LET distance == Abs(offset)
    IN  IF ~t.isActive THEN Null
        ELSE IF distance < MAGNETIC_RANGE /\ distance > t.size
        THEN [null  |-> FALSE,
              force |-> (IF offset > 0 THEN -1 ELSE 1) *
                        ((MAGNETIC_FORCE * (MAGNETIC_RANGE - distance))
                            \div MAGNETIC_RANGE)]
        ELSE Null

(* no call of getMagneticForce yet *)
NoForce == [isActive |-> FALSE, size |-> 0, offset |-> 0, result |-> Null]

(* State after construction (Game constructor, createWheel, UIManager) *)

NoHit == [type |-> "NONE", points |-> 0, scoreGain |-> 0, chainGain |-> 0,
          explosion |-> FALSE]

GameState(wheel, pickups) ==
    /\ now = StartTime
    /\ clockTime = 0
    /\ pc = "idle"
    /\ arrowIdx = 1
    /\ targets = wheel
    /\ arrows = << >>
    /\ powerUps = pickups
    /\ activePowerUps = << >>
    /\ obstacles = << >>
    /\ timers = << >>
    /\ score = 0
    /\ scoreMultiplier = 1
    /\ comboCount = 0
    /\ comboMultiplier = Scale
    /\ lastHitTime = 0
    /\ isStunned = FALSE
    /\ stunnedUntil = 0
    /\ lastArrowShot = 0
    /\ lastTargetCheck = 0
    /\ lastObstacleSpawn = 0
    /\ lastPowerUpSpawn = 0
    /\ shotsFired = 0
    /\ shotsHit = 0
    /\ lastHit = NoHit
    /\ deltaTime = 0
    /\ arrowZ = 0
    /\ magneticForce = NoForce

(* the state after new Game(): createWheel puts one Standard target at
   angle 0 *)
Construction ==
    GameState(<< NewTarget("STANDARD", 0, 0, StartTime) >>, << >>)

Init == Construction /\ scenario \in Scenarios

----------------------------------------------------------------------------
(* Environment: the wall clock *)

AdvanceTime ==
    /\ pc = "idle"
    /\ \E d \in TimeSteps(scenario) :
          /\ now + d <= StartTime + MaxElapsed(scenario)
          /\ now' = now + d
    /\ UNCHANGED << scenario, magneticForce, arrowZ, clockTime, pc, arrowIdx, targets, arrows, powerUps,
                    activePowerUps, obstacles, timers, score, scoreMultiplier,
                    comboCount, comboMultiplier, lastHitTime, isStunned,
                    stunnedUntil, lastArrowShot, lastTargetCheck,
                    lastObstacleSpawn, lastPowerUpSpawn, shotsFired, shotsHit,
                    lastHit, deltaTime >>

----------------------------------------------------------------------------
(* Game.shoot: the click handler *)

(* ActualCooldown with the rapid-fire multiplier applied unconditionally *)
ActualCooldownAlwaysRapid ==
    (arrowCooldown * ARROW_COOLDOWN_MULTIPLIER_PCT) \div 100

ActualCooldown ==
    IF HasActivePowerUp("RAPID_FIRE")
    THEN (arrowCooldown * ARROW_COOLDOWN_MULTIPLIER_PCT) \div 100
    ELSE arrowCooldown

(* the fire intent is accepted *)
CanShoot == ~(now - lastArrowShot < ActualCooldown)

(* FirstInactive that never finds a pooled arrow *)
FirstInactiveNever(arrs) == 0

(* index of the first inactive arrow, 0 if none (Array.find) *)
FirstInactive(arrs) ==
    IF \E i \in 1..Len(arrs) : ~arrs[i].active
    THEN CHOOSE i \in 1..Len(arrs) :
            /\ ~arrs[i].active
            /\ \A j \in 1..(i - 1) : arrs[j].active
    ELSE 0

(* the arrow returned by createArrow *)
CreateArrow == [active |-> FALSE, isExplosive |-> FALSE]

(* Launched that leaves the flag of an explosive arrow set *)
LaunchedKeepingFlag(arrow) ==
    [arrow EXCEPT !.active = TRUE,
                  !.isExplosive = @ \/ HasActivePowerUp("EXPLOSIVE_ARROWS")]

(* the pooled or new arrow as shoot launches it *)
Launched(arrow) ==
    [arrow EXCEPT !.active = TRUE,
                  !.isExplosive = HasActivePowerUp("EXPLOSIVE_ARROWS")]

(* a fire intent: launched, or rejected by the early return of the cooldown
   test *)
Shoot ==
    /\ pc = "idle"
    /\ shotsFired < MaxShots(scenario)
    /\ IF CanShoot
       THEN /\ LET slot == FirstInactive(arrows)
               IN  IF slot # 0
                   THEN arrows' = [arrows EXCEPT ![slot] = Launched(arrows[slot])]
                   ELSE /\ Len(arrows) < MaxArrows
                        /\ arrows' = Append(arrows, Launched(CreateArrow))
            /\ lastArrowShot' = now
            /\ shotsFired' = shotsFired + 1
       ELSE UNCHANGED << arrows, lastArrowShot, shotsFired >>
    /\ UNCHANGED << scenario, magneticForce, arrowZ, now, clockTime, pc, arrowIdx, targets, powerUps,
                    activePowerUps, obstacles, timers, score, scoreMultiplier,
                    comboCount, comboMultiplier, lastHitTime, isStunned,
                    stunnedUntil, lastTargetCheck, lastObstacleSpawn,
                    lastPowerUpSpawn, shotsHit, lastHit, deltaTime >>

----------------------------------------------------------------------------
(* Game.animate, first part: clock delta, player movement, arrow flight *)

ActiveArrows(arrs) == { i \in 1..Len(arrs) : arrs[i].active }

(* NextActive without the test of the active flag: every pooled arrow is
   scanned, spent ones included *)
NextPooled(arrs, i) == IF i <= Len(arrs) THEN i ELSE Len(arrs) + 1

(* first active arrow at or after index i, Len + 1 if none *)
NextActive(arrs, i) ==
    IF \E j \in i..Len(arrs) : arrs[j].active
    THEN CHOOSE j \in i..Len(arrs) :
            /\ arrs[j].active
            /\ \A k \in i..(j - 1) : ~arrs[k].active
    ELSE Len(arrs) + 1

Animate ==
    /\ pc = "idle"
    /\ pc' = "updatePowerUps"
    /\ deltaTime' = IF clockTime = 0 THEN 0 ELSE now - clockTime
    /\ clockTime' = now
    /\ \E out \in SUBSET ActiveArrows(arrows) :   \* arrows that left the stage
          arrows' = [i \in 1..Len(arrows) |->
                        IF i \in out THEN [arrows[i] EXCEPT !.active = FALSE]
                        ELSE arrows[i]]
    /\ UNCHANGED << scenario, magneticForce, arrowZ, now, arrowIdx, targets, powerUps, activePowerUps,
                    obstacles, timers, score, scoreMultiplier, comboCount,
                    comboMultiplier, lastHitTime, isStunned, stunnedUntil,
                    lastArrowShot, lastTargetCheck, lastObstacleSpawn,
                    lastPowerUpSpawn, shotsFired, shotsHit, lastHit >>

----------------------------------------------------------------------------
(* Game.updatePowerUps *)

ActiveIdx(s) == { i \in 1..Len(s) : s[i].isActive }

(* DeactivateAll that leaves the pickups active *)
DeactivateAllKeeping(s, P) == s

(* PowerUp.deactivate for the pickups at the indices in P *)
DeactivateAll(s, P) ==
    [i \in 1..Len(s) |-> IF i \in P THEN [s[i] EXCEPT !.isActive = FALSE] ELSE s[i]]

(* Game.activatePowerUp for the pickups P, in list order: the ledger *)
ActivateEffects(ledger, pups, P, t) ==
    ledger \o SelectIdx([i \in 1..Len(pups) |-> NewEffect(pups[i].type, t)], P)

(* Game.activatePowerUp: the immediate effect on scoreMultiplier *)
ActivateMultiplier(sm, pups, P) ==
    IF \E i \in P : pups[i].type = "SCORE_MULTIPLIER"
    THEN SCORE_MULTIPLIER_MULTIPLIER ELSE sm

(* Expired that keeps an effect at the instant its duration has elapsed *)
ExpiredStrict(effect, t) == t - effect.startTime > effect.duration

(* the expiry test of the filter in updatePowerUps *)
Expired(effect, t) == t - effect.startTime >= effect.duration

ExpireEffects(ledger, t) ==
    SelectIdx(ledger, { i \in 1..Len(ledger) : ~Expired(ledger[i], t) })

ExpireMultiplier(sm, ledger, t) ==
    IF \E i \in 1..Len(ledger) :
          Expired(ledger[i], t) /\ ledger[i].type = "SCORE_MULTIPLIER"
    THEN 1 ELSE sm

(* the sets of active pickups the player can be in contact with *)
PlayerTouches(pups) ==
    IF PlayerRoams(scenario) THEN SUBSET ActiveIdx(pups) ELSE {{}}

UpdatePowerUps ==
    /\ pc = "updatePowerUps"
    /\ pc' = "updateObstacles"
    /\ \E P \in PlayerTouches(powerUps) :         \* pickups touching the player
          LET picked == DeactivateAll(powerUps, P)
              ledger == ActivateEffects(activePowerUps, powerUps, P, now)
              sm     == ActivateMultiplier(scoreMultiplier, powerUps, P)
              due    == now - lastPowerUpSpawn >= POWERUP_SPAWN_INTERVAL
          IN  /\ IF due
                 THEN \E r1 \in PowerUpChanceDraws, r2 \in RandomSamples :
                         /\ powerUps' = SpawnPowerUp(picked, r1, r2)
                         /\ Len(powerUps') <= MaxPickups
                 ELSE powerUps' = picked
              /\ activePowerUps' = ExpireEffects(ledger, now)
              /\ scoreMultiplier' = ExpireMultiplier(sm, ledger, now)
              /\ lastPowerUpSpawn' = IF due THEN now ELSE lastPowerUpSpawn
    /\ UNCHANGED << scenario, magneticForce, arrowZ, now, clockTime, arrowIdx, targets, arrows, obstacles,
                    timers, score, comboCount, comboMultiplier, lastHitTime,
                    isStunned, stunnedUntil, lastArrowShot, lastTargetCheck,
                    lastObstacleSpawn, shotsFired, shotsHit, lastHit, deltaTime >>

----------------------------------------------------------------------------
(* Game.updateObstacles with Game.handleObstacleCollision *)

(* obstacles whose update can deactivate them: FlyingRock and Bird leave the
   bounds, Tree.update does nothing *)
CanLeave(obs) == { i \in ActiveIdx(obs) : obs[i].type # "TREE" }

(* StunAfterExpiry with the expiry test made strict *)
StunAfterExpiryStrict(stunned, until, t) ==
    IF stunned /\ t > until THEN FALSE ELSE stunned

(* the stun flag after the expiry test at the top of updateObstacles *)
StunAfterExpiry(stunned, until, t) ==
    IF stunned /\ t >= until THEN FALSE ELSE stunned

UpdateObstacles ==
    /\ pc = "updateObstacles"
    /\ pc' = "updateTargets"
    /\ \E O \in SUBSET CanLeave(obstacles) :            \* left the bounds
       \E C \in SUBSET (ActiveIdx(obstacles) \ O) :     \* collide with the player
          LET remaining == SelectIdx(obstacles, ActiveIdx(obstacles) \ (O \cup C))
              due == now - lastObstacleSpawn >= OBSTACLE_SPAWN_INTERVAL
              expired == [PlayerState EXCEPT !.isStunned =
                             StunAfterExpiry(isStunned, stunnedUntil, now)]
              after == HandleCollisions(expired, Cardinality(C), now)
          IN  /\ isStunned' = after.isStunned
              /\ stunnedUntil' = after.stunnedUntil
              /\ score' = after.score
              /\ comboCount' = after.comboCount
              /\ comboMultiplier' = after.comboMultiplier
              /\ lastHitTime' = after.lastHitTime
              /\ IF due
                 THEN \E r1 \in ObstacleChanceDraws, r2 \in RandomSamples,
                         r3 \in RandomSamples :
                         obstacles' = SpawnObstacle(remaining, r1, r2, r3)
                 ELSE obstacles' = remaining
              /\ lastObstacleSpawn' = IF due THEN now ELSE lastObstacleSpawn
    /\ UNCHANGED << scenario, magneticForce, arrowZ, now, clockTime, arrowIdx, targets, arrows, powerUps,
                    activePowerUps, timers, scoreMultiplier, lastArrowShot,
                    lastTargetCheck, lastPowerUpSpawn, shotsFired, shotsHit,
                    lastHit, deltaTime >>

----------------------------------------------------------------------------
(* Game.updateTargets *)

(* the filter that removes inactive targets *)
RemoveInactive(tgts) == SelectIdx(tgts, ActiveIdx(tgts))

(* EnsureTarget that never forces a target *)
EnsureTargetNever(tgts, t) == tgts

(* the forced Standard target when the list is empty *)
EnsureTarget(tgts, t) ==
    IF Len(tgts) = 0 THEN << NewTarget("STANDARD", 0, 0, t) >> ELSE tgts

UpdateTargets ==
    /\ pc = "updateTargets"
    /\ pc' = "checkCollisions"
    /\ arrowIdx' = NextActive(arrows, 1)
    /\ LET updated == [i \in 1..Len(targets) |->
                          UpdateTarget(targets[i], deltaTime, now)]
           kept == RemoveInactive(updated)
           due == now - lastTargetCheck >= SPAWN_CHECK_INTERVAL
       IN  /\ lastTargetCheck' = IF due THEN now ELSE lastTargetCheck
           /\ IF due
              THEN \E a \in ValidAngleChoices(kept), r \in TypeDraws(scenario) :
                      targets' = EnsureTarget(SpawnTarget(kept, a, r, now), now)
              ELSE targets' = EnsureTarget(kept, now)
    /\ UNCHANGED << scenario, magneticForce, arrowZ, now, clockTime, arrows, powerUps, activePowerUps,
                    obstacles, timers, score, scoreMultiplier, comboCount,
                    comboMultiplier, lastHitTime, isStunned, stunnedUntil,
                    lastArrowShot, lastObstacleSpawn, lastPowerUpSpawn,
                    shotsFired, shotsHit, lastHit, deltaTime >>

----------------------------------------------------------------------------
(* Game.checkCollisions: one iteration of the outer forEach, for the active
   arrow at arrowIdx, with Game.handleSpecialTargetEffect *)

RECURSIVE SumOver(_, _)
SumOver(S, f) ==
    IF S = {} THEN 0
    ELSE LET x == CHOOSE y \in S : TRUE IN f[x] + SumOver(S \ {x}, f)

(* the miss test on the arrow's z position *)
PassedWheelArea(z) == z < -20 /\ z > -10

(* Hittable that ignores the active flag of the target *)
HittableAlways(tgts) == 1..Len(tgts)

(* the targets an arrow can hit: the guard of the inner forEach and
   checkCollision for some distance of the arrow *)
Hittable(tgts) ==
    { i \in 1..Len(tgts) :
         /\ tgts[i].isActive
         /\ \E distance \in DistanceSamples : CheckCollision(tgts[i], distance) }

(* the targets a chain explosion of target h can reach *)
Chainable(tgts, h) == { i \in 1..Len(tgts) : i # h /\ tgts[i].isActive }

(* TargetsAfterHit that also splits a chained Split target *)
TargetsAfterHitChainSplits(tgts, h, S, special, t) ==
    LET marked == [i \in 1..Len(tgts) |->
                      IF i \in S THEN Deactivate(tgts[i]) ELSE tgts[i]]
        spliced == SelectIdx(marked, (1..Len(tgts)) \ {h})
        splits == { i \in S : tgts[i].type = "SPLIT"
                                 /\ tgts[i].splitCount < MAX_SPLITS }
        chainChildren == IF splits = {} THEN << >>
                         ELSE SplitChildren(tgts[CHOOSE i \in splits : TRUE], t)
    IN  (IF special = "split" THEN spliced \o SplitChildren(tgts[h], t)
         ELSE spliced) \o chainChildren

(* the target list after the direct hit of target h with chain set S:
   h spliced out, the chained targets deactivated in place, the split
   children pushed at the end *)
TargetsAfterHit(tgts, h, S, special, t) ==
    LET marked == [i \in 1..Len(tgts) |->
                      IF i \in S THEN Deactivate(tgts[i]) ELSE tgts[i]]
        spliced == SelectIdx(marked, (1..Len(tgts)) \ {h})
    IN  IF special = "split" THEN spliced \o SplitChildren(tgts[h], t)
        ELSE spliced

(* PickupChoices that lets an arrow that has hit a target collect a pickup *)
PickupChoicesIgnoringArrow(arrowActive, pups) == {0} \cup ActiveIdx(pups)

(* the pickup scan of checkCollisions for one arrow: the index of the pickup
   the arrow collects, 0 for none; the guard skips inactive pickups and skips
   every pickup once the arrow is inactive, so an arrow that has hit a target
   collects none and an arrow collects at most the first pickup in reach *)
PickupChoices(arrowActive, pups) ==
    IF arrowActive THEN {0} \cup ActiveIdx(pups) ELSE {0}

(* an arrow that hits target h *)
ArrowHitsTarget(h) ==
    \E r \in (IF targets[h].type = "MYSTERY" THEN RandomSamples ELSE {0}) :
    \E S \in (IF targets[h].type = "EXPLOSIVE"
              THEN SUBSET Chainable(targets, h) ELSE {{}}) :
    \E rr \in [{ i \in S : targets[i].type = "MYSTERY" } -> RandomSamples] :
       LET target == targets[h]
           hitResult == OnHitResult(target, r)
           scoreGain == ScoreGain(hitResult.points, scoreMultiplier, comboMultiplier)
           combo == UpdateCombo(comboCount, comboMultiplier, lastHitTime, now)
           chained == IF hitResult.special = "explosive" THEN S ELSE {}
           chainPoints == [i \in chained |->
                              ScoreGain(OnHitResult(targets[i],
                                           IF i \in DOMAIN rr THEN rr[i] ELSE 0).points,
                                        scoreMultiplier, combo.comboMultiplier)]
           chainGain == SumOver(chained, chainPoints)
       IN  /\ \E r1 \in (IF hitResult.special = "powerUp"
                          THEN PowerUpChanceDraws ELSE {NoSpawnDraw}),
                  r2 \in (IF hitResult.special = "powerUp"
                          THEN RandomSamples ELSE {0}) :
                 LET spawned == IF hitResult.special = "powerUp"
                                THEN SpawnPowerUp(powerUps, r1, r2)
                                ELSE powerUps
                 IN  /\ Len(spawned) <= MaxPickups
                     /\ \E p \in PickupChoices(FALSE, spawned) :
                           IF p = 0
                           THEN /\ powerUps' = spawned
                                /\ UNCHANGED << activePowerUps, scoreMultiplier >>
                           ELSE /\ powerUps' = DeactivateAll(spawned, {p})
                                /\ activePowerUps' =
                                      ActivateEffects(activePowerUps, spawned, {p}, now)
                                /\ scoreMultiplier' =
                                      ActivateMultiplier(scoreMultiplier, spawned, {p})
           /\ arrows' = [arrows EXCEPT ![arrowIdx].active = FALSE]
           /\ score' = score + scoreGain + chainGain
           /\ comboCount' = combo.comboCount
           /\ comboMultiplier' = combo.comboMultiplier
           /\ lastHitTime' = combo.lastHitTime
           /\ shotsHit' = shotsHit + 1
           /\ lastHit' = [type |-> target.type, points |-> hitResult.points,
                          scoreGain |-> scoreGain, chainGain |-> chainGain,
                          explosion |-> hitResult.special = "explosive"]
           /\ targets' = TargetsAfterHit(targets, h, chained, hitResult.special, now)
           /\ timers' = IF hitResult.special = "multiball"
                        THEN timers \o << now, now + 500, now + 1000 >>
                        ELSE timers
           /\ arrowZ' = 0

(* an arrow that hits no target: the miss broadcast, then the pickups *)
ArrowHitsNoTarget ==
    \E z \in ArrowZSamples :
    \E p \in PickupChoices(TRUE, powerUps) :
       /\ arrowZ' = z
       /\ targets' = IF PassedWheelArea(z)
                     THEN [i \in 1..Len(targets) |->
                              IF targets[i].isActive THEN OnMiss(targets[i])
                              ELSE targets[i]]
                     ELSE targets
       /\ IF p = 0
          THEN UNCHANGED << arrows, powerUps, activePowerUps, scoreMultiplier >>
          ELSE /\ arrows' = [arrows EXCEPT ![arrowIdx].active = FALSE]
               /\ powerUps' = DeactivateAll(powerUps, {p})
               /\ activePowerUps' = ActivateEffects(activePowerUps, powerUps, {p}, now)
               /\ scoreMultiplier' = ActivateMultiplier(scoreMultiplier, powerUps, {p})
       /\ UNCHANGED << score, comboCount, comboMultiplier, lastHitTime,
                       shotsHit, lastHit, timers >>

CheckArrow ==
    /\ pc = "checkCollisions"
    /\ arrowIdx <= Len(arrows)
    /\ \/ \E h \in Hittable(targets) : ArrowHitsTarget(h)
       \/ ArrowHitsNoTarget
    /\ arrowIdx' = NextActive(arrows, arrowIdx + 1)
    /\ UNCHANGED << scenario, magneticForce, now, clockTime, pc, obstacles, isStunned, stunnedUntil,
                    lastArrowShot, lastTargetCheck, lastObstacleSpawn,
                    lastPowerUpSpawn, shotsFired, deltaTime >>

(* the end of checkCollisions and of the frame: renderer.render *)
Render ==
    /\ pc = "checkCollisions"
    /\ arrowIdx > Len(arrows)
    /\ pc' = "idle"
    /\ arrowIdx' = 1
    /\ deltaTime' = 0
    /\ lastHit' = NoHit
    /\ arrowZ' = 0
    /\ UNCHANGED << scenario, magneticForce, now, clockTime, targets, arrows, powerUps, activePowerUps,
                    obstacles, timers, score, scoreMultiplier, comboCount,
                    comboMultiplier, lastHitTime, isStunned, stunnedUntil,
                    lastArrowShot, lastTargetCheck, lastObstacleSpawn,
                    lastPowerUpSpawn, shotsFired, shotsHit >>

----------------------------------------------------------------------------
(* Game.spawnSpecialTargets: one setTimeout callback that has come due *)

(* RunsBetweenTasks that lets a callback run while checkCollisions runs *)
RunsInsideCheckCollisions(position) == position \in {"idle", "checkCollisions"}

(* a setTimeout callback is a task of its own: it runs when no animate frame
   is on the stack *)
RunsBetweenTasks(position) == position = "idle"

TimerSpawn ==
    /\ RunsBetweenTasks(pc)
    /\ \E k \in 1..Len(timers) :
          /\ timers[k] <= now
          /\ timers' = SelectIdx(timers, (1..Len(timers)) \ {k})
          /\ \E a \in ValidAngleChoices(targets), r \in TypeDraws(scenario) :
                targets' = SpawnTarget(targets, a, r, now)
    /\ UNCHANGED << scenario, magneticForce, arrowZ, now, clockTime, pc, arrowIdx, arrows, powerUps,
                    activePowerUps, obstacles, score, scoreMultiplier,
                    comboCount, comboMultiplier, lastHitTime, isStunned,
                    stunnedUntil, lastArrowShot, lastTargetCheck,
                    lastObstacleSpawn, lastPowerUpSpawn, shotsFired, shotsHit,
                    lastHit, deltaTime >>

----------------------------------------------------------------------------
(* The running game, from construction.  No Mystery target can be on the
   wheel (see SelectType), so no spawnSpecialTargets timer is ever pending. *)

Next ==
    \/ AdvanceTime
    \/ Shoot
    \/ Animate
    \/ UpdatePowerUps
    \/ UpdateObstacles
    \/ UpdateTargets
    \/ CheckArrow
    \/ Render

Spec == Init /\ [][Next]_vars

InitPowerUps == Construction /\ scenario = "powerUps"
SpecPowerUps == InitPowerUps /\ [][Next]_vars

InitObstacles == Construction /\ scenario = "obstacles"
SpecObstacles == InitObstacles /\ [][Next]_vars

(* The obstacle course with the progress the browser and the physics give:
   requestAnimationFrame keeps calling animate, and the motion of
   FlyingRock.update (gravity) and Bird.update (constant velocity) carries
   every rock and bird past its bound, so the pass of updateObstacles after
   which only trees stand happens again and again.  The player's moves are
   input and get no fairness. *)
RocksAndBirdsLeave ==
    /\ UpdateObstacles
    /\ \A i \in 1..Len(obstacles') : obstacles'[i].type = "TREE"

FairObstacles ==
    /\ WF_vars(Next)
    /\ SF_vars(RocksAndBirdsLeave)

InitCourse == Construction /\ scenario = "course"

SpecCourse == InitCourse /\ [][Next]_vars /\ FairObstacles

InitWheel == Construction /\ scenario = "wheel"
SpecWheel == InitWheel /\ [][Next]_vars

InitExpiry == Construction /\ scenario = "expiry"
SpecExpiry == InitExpiry /\ [][Next]_vars

InitLedger == Construction /\ scenario = "ledger"
SpecLedger == InitLedger /\ [][Next]_vars

InitReuse == Construction /\ scenario = "reuse"
SpecReuse == InitReuse /\ [][Next]_vars

InitRapid == Construction /\ scenario = "rapid"
SpecRapid == InitRapid /\ [][Next]_vars

----------------------------------------------------------------------------
(* The handlers on wheels that hold the variants of spawnTarget's table
   which its cumulative-chance loop does not reach: the contracts of the
   target classes, of checkCollisions and of handleSpecialTargetEffect for
   Split, Ghost, Mystery and Explosive targets, and of onMiss. *)

VariantWheels ==
    { << NewTarget("SPLIT", 1571, 0, StartTime),
         NewTarget("GHOST", 4712, 0, StartTime) >>,
      << NewTarget("EXPLOSIVE", 0, 0, StartTime),
         NewTarget("SHRINKING", 1571, 0, StartTime),
         NewTarget("SPLIT", 3142, 0, StartTime),
         NewTarget("MYSTERY", 4712, 0, StartTime) >> }

InitVariants ==
    /\ \E wheel \in VariantWheels : GameState(wheel, << >>)
    /\ scenario = "variants"

(* the miss broadcast of checkCollisions (the forEach inside the band test)
   on its own: onMiss delivered to every active target *)
MissBroadcast ==
    /\ pc = "idle"
    /\ targets' = [i \in 1..Len(targets) |->
                      IF targets[i].isActive THEN OnMiss(targets[i])
                      ELSE targets[i]]
    /\ UNCHANGED << scenario, magneticForce, arrowZ, now, clockTime, pc, arrowIdx, arrows,
                    powerUps, activePowerUps, obstacles, timers, score,
                    scoreMultiplier, comboCount, comboMultiplier, lastHitTime,
                    isStunned, stunnedUntil, lastArrowShot, lastTargetCheck,
                    lastObstacleSpawn, lastPowerUpSpawn, shotsFired, shotsHit,
                    lastHit, deltaTime >>

NextVariants == Next \/ TimerSpawn \/ MissBroadcast

SpecVariants == InitVariants /\ [][NextVariants]_vars

----------------------------------------------------------------------------
(* The handlers on wheels that hold a Mystery target, with the pickups that
   are about when it is hit: none, or MAX_ACTIVE_POWERUPS active ones.  The
   rewards of MysteryTarget.onHit, spawnPowerUp from the interval timer and
   from the reward, and the timer callbacks of spawnSpecialTargets. *)

MysteryWheels ==
    { << NewTarget("MYSTERY", 1571, 0, StartTime) >>,
      << NewTarget("MYSTERY", 1571, 0, StartTime),
         NewTarget("STANDARD", 0, 0, StartTime),
         NewTarget("GOLD", 4712, 0, StartTime),
         NewTarget("BONUS", 5498, 0, StartTime) >> }

PickupLists ==
    { << >>,
      << [type |-> "RAPID_FIRE", isActive |-> TRUE],
         [type |-> "EXPLOSIVE_ARROWS", isActive |-> TRUE],
         [type |-> "SCORE_MULTIPLIER", isActive |-> TRUE] >> }

InitMystery ==
    /\ \E wheel \in MysteryWheels, pickups \in PickupLists :
          GameState(wheel, pickups)
    /\ scenario = "mystery"

NextMystery == Next \/ TimerSpawn

SpecMystery == InitMystery /\ [][NextMystery]_vars

----------------------------------------------------------------------------
(* The update pass on wheels that hold one target of each variant in turn,
   over a span longer than the longest lifetime (Ghost, 25 s) *)

LifetimeWheels ==
    { << NewTarget(type, 1571, 0, StartTime) >> : type \in TargetTypes }

InitLifetime ==
    /\ \E wheel \in LifetimeWheels : GameState(wheel, << >>)
    /\ scenario = "lifetime"

SpecLifetime == InitLifetime /\ [][Next]_vars

----------------------------------------------------------------------------
(* spawnTarget with its type draw over all of [0, 1), in hundredths *)

InitDraw == Construction /\ scenario = "draw"

SpecDraw == InitDraw /\ [][Next]_vars

----------------------------------------------------------------------------
(* The obstacle course over two spawn waves: the second wave is due one
   SPAWN_INTERVAL after the first *)

InitFlock == Construction /\ scenario = "flock"

SpecFlock == InitFlock /\ [][Next]_vars

----------------------------------------------------------------------------
(* MagneticTarget.getMagneticForce on its own: the call made by the target
   scan of checkCollisions, for a Magnetic target on the wheel and arrow
   positions on a grid around it and at the two bounds of the force band *)

MagnetWheels ==
    { << NewTarget("MAGNETIC", 1571, 0, StartTime) >>,
      << [NewTarget("MAGNETIC", 1571, 0, StartTime) EXCEPT !.isActive = FALSE] >> }

OffsetSamples ==
    LET grid  == { k * OffsetStep : k \in 0..MaxOffsetSteps }
        edges == { TargetConfig("MAGNETIC").SIZE, TargetConfig("MAGNETIC").SIZE + 1,
                   MAGNETIC_RANGE - 1, MAGNETIC_RANGE }
    IN  { x : x \in grid \cup edges } \cup { 0 - x : x \in grid \cup edges }

InitMagnet ==
    /\ \E wheel \in MagnetWheels : GameState(wheel, << >>)
    /\ scenario = "magnet"

ApplyMagneticForce ==
    /\ \E i \in 1..Len(targets), offset \in OffsetSamples :
          /\ targets[i].type = "MAGNETIC"
          /\ magneticForce' = [isActive |-> targets[i].isActive,
                               size     |-> targets[i].size,
                               offset   |-> offset,
                               result   |-> GetMagneticForce(targets[i], offset)]
    /\ UNCHANGED << scenario, arrowZ, now, clockTime, pc, arrowIdx, targets, arrows,
                    powerUps, activePowerUps, obstacles, timers, score,
                    scoreMultiplier, comboCount, comboMultiplier, lastHitTime,
                    isStunned, stunnedUntil, lastArrowShot, lastTargetCheck,
                    lastObstacleSpawn, lastPowerUpSpawn, shotsFired, shotsHit,
                    lastHit, deltaTime >>

NextMagnet == ApplyMagneticForce

SpecMagnet == InitMagnet /\ [][NextMagnet]_vars

----------------------------------------------------------------------------
(* Game.updateCombo on its own: hits registered at arbitrary instants *)

InitCombo == Construction /\ scenario = "combo"

RegisterHit ==
    /\ comboCount < MaxCombo
    /\ LET combo == UpdateCombo(comboCount, comboMultiplier, lastHitTime, now)
       IN  /\ comboCount' = combo.comboCount
           /\ comboMultiplier' = combo.comboMultiplier
           /\ lastHitTime' = combo.lastHitTime
    /\ UNCHANGED << scenario, magneticForce, arrowZ, now, clockTime, pc, arrowIdx, targets, arrows,
                    powerUps, activePowerUps, obstacles, timers, score,
                    scoreMultiplier, isStunned, stunnedUntil, lastArrowShot,
                    lastTargetCheck, lastObstacleSpawn, lastPowerUpSpawn,
                    shotsFired, shotsHit, lastHit, deltaTime >>

NextCombo == AdvanceTime \/ RegisterHit

SpecCombo == InitCombo /\ [][NextCombo]_vars

----------------------------------------------------------------------------
(* Properties *)

(* a step in which an arrow hits a target directly *)
DirectHit == shotsHit' # shotsHit

(* C1: every direct arrow-target hit raises the score by exactly
   round(basePoints * scoreMultiplier * comboMultiplier), basePoints being
   the value onHit returned and the multipliers the ones in force when the
   arrow lands; a 10-point hit with score multiplier 1 and combo multiplier
   1.0 awards 10, and with score multiplier 3 and combo multiplier 2.0
   awards 60.  (g is the award: the score increase less any chain award;
   g = round(x / Scale) is stated as  g - 1/2 <= x / Scale < g + 1/2.) *)
C1_HitAward ==
    [][DirectHit =>
          LET x == lastHit'.points * scoreMultiplier * comboMultiplier
              g == score' - score - lastHit'.chainGain
          IN  /\ 2 * Scale * g - Scale <= 2 * x
              /\ 2 * x < 2 * Scale * g + Scale
              /\ lastHit'.scoreGain = g
              /\ (lastHit'.points = 10 /\ scoreMultiplier = 1
                    /\ comboMultiplier = 1 * Scale) => g = 10
              /\ (lastHit'.points = 10 /\ scoreMultiplier = 3
                    /\ comboMultiplier = 2 * Scale) => g = 60]_vars

(* C1 witness: a Standard target hit as the third hit of a combo, under a
   score-multiplier effect, was awarded 60 *)
C1_Witness ==
    /\ lastHit.type = "STANDARD"
    /\ lastHit.points = 10
    /\ lastHit.scoreGain = 60
    /\ scoreMultiplier = 3
    /\ comboCount = 3

(* a step in which updateCombo registers a hit: it always moves the combo
   count or the last-hit time *)
RegisteredHit == comboCount' # comboCount \/ lastHitTime' # lastHitTime

(* C2: a hit registered at time now increments the combo count and sets the
   multiplier to min(1 + count * 0.5, 5) with the incremented count when
   now - lastHitTime <= 2000 ms, otherwise sets the count to 1 and the
   multiplier to 1; either way lastHitTime becomes now *)
C2_UpdateComboRule ==
    [][RegisteredHit =>
          /\ lastHitTime' = now
          /\ IF now - lastHitTime <= 2000
             THEN /\ comboCount' = comboCount + 1
                  /\ 2 * comboMultiplier' =
                        Min(2 * Scale + comboCount' * Scale, 2 * 5 * Scale)
             ELSE /\ comboCount' = 1
                  /\ comboMultiplier' = 1 * Scale]_vars

(* C2 witness: a hit exactly 2000 ms after construction time continued a
   combo: count 2, multiplier 2.0 *)
C2_Witness ==
    /\ scenario = "combo"
    /\ now = StartTime + 2000
    /\ lastHitTime = now
    /\ comboCount = 2
    /\ comboMultiplier = 2 * Scale

(* C3, as stated: hits registered at t = 0, 500 and 900 ms, the first one
   starting a fresh combo, leave the multiplier at 1, then 1.5, then 2.0
   (t = 0 is StartTime; the combo count tells which hit of the combo the
   step registers) *)
C3_ThreeHits ==
    [][RegisteredHit =>
          /\ (now = StartTime /\ comboCount = 0)
                => 2 * comboMultiplier' = 2 * Scale
          /\ (now = StartTime + 500 /\ lastHitTime = StartTime /\ comboCount = 1)
                => 2 * comboMultiplier' = 3 * Scale
          /\ (now = StartTime + 900 /\ lastHitTime = StartTime + 500
                /\ comboCount = 2)
                => 2 * comboMultiplier' = 4 * Scale]_vars

(* C3, amended: the same three hits leave the multiplier at 1, then 2.0,
   then 2.5 *)
C3_ThreeHitsAmended ==
    [][RegisteredHit =>
          /\ (now = StartTime /\ comboCount = 0)
                => 2 * comboMultiplier' = 2 * Scale
          /\ (now = StartTime + 500 /\ lastHitTime = StartTime /\ comboCount = 1)
                => 2 * comboMultiplier' = 4 * Scale
          /\ (now = StartTime + 900 /\ lastHitTime = StartTime + 500
                /\ comboCount = 2)
                => 2 * comboMultiplier' = 5 * Scale]_vars

(* C3 witness: the third hit of a combo registered at t = 900 ms *)
C3_Witness ==
    /\ scenario = "combo"
    /\ now = StartTime + 900
    /\ lastHitTime = StartTime + 900
    /\ comboCount = 3
    /\ 2 * comboMultiplier = 5 * Scale

(* C4: the multiplier never decreases from one hit to the next when they are
   at most the combo window apart, is exactly 1 right after a hit that comes
   later than that, and always lies in [1, MAX_COMBO_MULTIPLIER] *)
C4_ComboMonotoneBounded ==
    /\ [](Scale <= comboMultiplier /\ comboMultiplier <= MAX_COMBO_MULTIPLIER)
    /\ [][RegisteredHit =>
            /\ (now - lastHitTime <= COMBO_TIME_WINDOW)
                  => comboMultiplier' >= comboMultiplier
            /\ (now - lastHitTime > COMBO_TIME_WINDOW)
                  => comboMultiplier' = Scale]_vars

(* C4 witness: a combo long enough for the clamp to bite *)
C4_Witness ==
    /\ scenario = "combo"
    /\ comboCount = 9
    /\ comboMultiplier = MAX_COMBO_MULTIPLIER

(* a step of updateObstacles in which an obstacle collides with the player:
   the only steps that move stunnedUntil or set the stun flag.  A pass that
   runs in the same millisecond as an earlier collision and keeps the pair
   as it is satisfies the right-hand side too. *)
ObstacleCollision ==
    /\ pc = "updateObstacles"
    /\ isStunned'
    /\ stunnedUntil' = now + STUN_DURATION

(* C5: the score is always an integer >= 0; the only step that lowers it is
   an obstacle-player collision, each collision taking the penalty of 5 and
   flooring at 0; a hit, with any chain award, never lowers it *)
C5_ScoreFloor ==
    /\ [](score \in Nat)
    /\ [][/\ (score' < score) =>
               /\ ObstacleCollision
               /\ \E k \in 1..Len(obstacles) :
                      score' = Max(0, score - 5 * k)
          /\ DirectHit => score' >= score]_vars

(* C5 witness: a 10-point hit followed by one collision leaves 5 *)
C5_Witness ==
    /\ score = 5
    /\ shotsHit = 1
    /\ isStunned
    /\ stunnedUntil = now + STUN_DURATION

(* C6: an obstacle-player collision leaves the combo count, the combo
   multiplier and the last-hit time as they are; of the game state it moves
   only the score, the stun flag and deadline, and the obstacle list (with
   the spawn bookkeeping of the same updateObstacles pass) *)
C6_CollisionKeepsCombo ==
    [][ObstacleCollision =>
          /\ UNCHANGED << comboCount, comboMultiplier, lastHitTime >>
          /\ UNCHANGED << targets, arrows, powerUps, activePowerUps, timers,
                          scoreMultiplier, lastArrowShot, lastTargetCheck,
                          lastPowerUpSpawn, shotsFired, shotsHit >>]_vars

(* C6 witness: a collision during a running combo *)
C6_Witness ==
    /\ pc = "updateTargets"
    /\ isStunned
    /\ stunnedUntil = now + STUN_DURATION
    /\ score = 5
    /\ comboCount = 1
    /\ now - lastHitTime <= COMBO_TIME_WINDOW

(* C7: a collision starts a stun window of 2000 ms: stunnedUntil moves only
   by a collision, to the collision time + 2000; the stun flag is set only by
   a collision and stays set at every step taken before stunnedUntil; the
   first updateObstacles pass at or after stunnedUntil clears it unless a
   collision of that pass restarts the window; the collided obstacle is off
   the list after the pass *)
C7_StunWindow ==
    [][/\ (stunnedUntil' # stunnedUntil \/ (isStunned' /\ ~isStunned))
            => /\ ObstacleCollision
               /\ stunnedUntil' = now + 2000
               /\ \A i \in 1..Len(obstacles') : obstacles'[i].isActive
       /\ (isStunned /\ ~isStunned')
            => (pc = "updateObstacles" /\ now >= stunnedUntil)
       /\ (pc = "updateObstacles" /\ isStunned /\ now >= stunnedUntil
             /\ stunnedUntil' = stunnedUntil)
            => ~isStunned']_vars

(* C7 witness: the stun cleared by the pass that runs exactly at the end of
   the window *)
C7_Witness ==
    /\ pc = "updateTargets"
    /\ ~isStunned
    /\ stunnedUntil = now
    /\ stunnedUntil >= StartTime + STUN_DURATION

(* C8: while the player is stunned a fire intent launches no arrow *)
C8_NoShotWhileStunned ==
    [][(isStunned /\ now < stunnedUntil) => shotsFired' = shotsFired]_vars

(* C9: whatever spawns, hits, splits, chain reactions, expiries and
   timer-driven spawns have happened, at most MAX_TARGETS_ON_WHEEL (5)
   targets are on the wheel *)
C9_WheelCap == Len(targets) <= 5

(* C9 witness: a spawn check that came due on a full wheel added nothing *)
C9_Witness ==
    /\ pc = "checkCollisions"
    /\ lastTargetCheck = now
    /\ Len(targets) = MAX_TARGETS_ON_WHEEL
    /\ \A i \in 1..Len(targets) : targets[i].spawnTime < now

(* C10: after every updateTargets pass the target list is non-empty and
   holds only active targets (those that survived the pass or were spawned
   by it); when nothing survives and nothing is spawned, the list is one
   Standard target created in that pass *)
C10_NeverEmpty ==
    [][pc = "updateTargets" =>
          LET gone(t) == \/ ~t.isActive
                         \/ (t.lifetime # 0 /\ now - t.spawnTime >= t.lifetime)
              due == now - lastTargetCheck >= 3000
          IN  /\ targets' # << >>
              /\ \A i \in 1..Len(targets') : targets'[i].isActive
              /\ (\A i \in 1..Len(targets) : gone(targets[i]))
                   => /\ Len(targets') = 1
                      /\ targets'[1].spawnTime = now
                      /\ targets'[1].type = "STANDARD" \/ due]_vars

(* C10 witness: the last target was hit and the next pass, with no spawn
   check due, forced a Standard target *)
C10_Witness ==
    /\ pc = "checkCollisions"
    /\ now > StartTime
    /\ shotsHit = 1
    /\ Len(targets) = 1
    /\ targets[1].type = "STANDARD"
    /\ targets[1].spawnTime = now

----------------------------------------------------------------------------
(* the distance of two angles around the wheel, mrad *)
CircularDistance(a, b) ==
    LET d == Abs(a - b) % TWO_PI IN Min(d, TWO_PI - d)

(* a step of updateTargets in which spawnTarget pushed a target: the spawn
   check was due and the last target of the list was constructed now by
   spawnTarget, which never constructs a Standard target *)
SpawnedByCheck ==
    /\ pc = "updateTargets"
    /\ lastTargetCheck' # lastTargetCheck
    /\ Len(targets') > 0
    /\ targets'[Len(targets')].spawnTime = now
    /\ targets'[Len(targets')].type # "STANDARD"

(* C11: whenever spawnTarget adds a target, the distance around the wheel
   between the new target's angle and the stored angle of every target
   already on the wheel is at least pi/4, also when a stored angle lies
   outside [0, 2*pi) because a Speed target has advanced past a full turn. *)
C11_SpawnSeparation ==
    [][SpawnedByCheck =>
          \A i \in 1..(Len(targets') - 1) :
              CircularDistance(targets'[Len(targets')].wheelAngle,
                               targets'[i].wheelAngle) >= MinAngleDistance]_vars

(* a target has just been spawned next to a Speed target whose stored angle
   has passed 2*pi *)
C11_Witness ==
    /\ pc = "checkCollisions"
    /\ lastTargetCheck = now
    /\ Len(targets) > 1
    /\ targets[Len(targets)].spawnTime = now
    /\ targets[Len(targets)].type # "STANDARD"
    /\ \E i \in 1..(Len(targets) - 1) :
          targets[i].type = "SPEED" /\ targets[i].wheelAngle >= TWO_PI

----------------------------------------------------------------------------
(* the wheel stands at z = -15 (createWheel): an arrow in the wheel area *)
InWheelArea(z) == -20 < z /\ z < -10

(* C12: when an active arrow passes through the wheel area in a tick
   without hitting any target, onMiss is delivered to every active target in
   that tick: every active Shrinking target counts one more miss. *)
C12_MissDelivered ==
    [][(/\ pc = "checkCollisions"
        /\ arrowIdx <= Len(arrows)
        /\ shotsHit' = shotsHit
        /\ InWheelArea(arrowZ'))
       => \A i \in 1..Len(targets) :
             (targets[i].isActive /\ targets[i].type = "SHRINKING")
                => /\ Len(targets') = Len(targets)
                   /\ targets'[i].missCount = targets[i].missCount + 1]_vars

----------------------------------------------------------------------------
(* C13: a Shrinking target that receives MAX_MISSES (3) miss events with no
   hit in between deactivates on the last one and on none before it; a
   deactivated target reports no collision at any distance, and no
   deactivated target is left on the wheel by the next updateTargets pass. *)
C13_ShrinkingDepletion ==
    /\ [](\A i \in 1..Len(targets) :
             ~targets[i].isActive
                => \A distance \in DistanceSamples :
                      ~CheckCollision(targets[i], distance))
    /\ [][/\ \A i \in 1..Len(targets) :
                (/\ Len(targets') = Len(targets)
                 /\ targets[i].type = "SHRINKING"
                 /\ targets[i].isActive
                 /\ targets'[i].missCount = targets[i].missCount + 1)
                   => (targets'[i].isActive
                          <=> targets'[i].missCount < MAX_MISSES)
          /\ pc = "updateTargets"
                => \A i \in 1..Len(targets') : targets'[i].isActive]_vars

(* a Shrinking target deactivated by its third miss is still on the wheel *)
C13_Witness ==
    \E i \in 1..Len(targets) :
        /\ targets[i].type = "SHRINKING"
        /\ targets[i].missCount = MAX_MISSES
        /\ ~targets[i].isActive

----------------------------------------------------------------------------
(* the list s without its element at index h *)
Without(s, h) == SelectIdx(s, (1..Len(s)) \ {h})

(* target c is an active Split target at the given angle and depth *)
IsSplitChild(c, angle, depth) ==
    /\ c.type = "SPLIT"
    /\ c.isActive
    /\ c.wheelAngle = angle
    /\ c.splitCount = depth

(* C14: an arrow hit on a Split target of depth below MAX_SPLITS (2) removes
   it and adds exactly two Split targets, at the parent's angle minus and
   plus SPLIT_ANGLE and of depth one more; a hit on a Split target of depth
   MAX_SPLITS removes it, reports its points and adds no target; no target
   ever has a depth above MAX_SPLITS. *)
C14_SplitOnHit ==
    /\ [](\A i \in 1..Len(targets) : targets[i].splitCount <= MAX_SPLITS)
    /\ [][(DirectHit /\ lastHit'.type = "SPLIT") =>
             \E h \in 1..Len(targets) :
                /\ targets[h].type = "SPLIT"
                /\ targets[h].isActive
                /\ lastHit'.points = targets[h].points
                /\ LET n == Len(targets) - 1
                   IN  IF targets[h].splitCount < MAX_SPLITS
                       THEN /\ Len(targets') = n + 2
                            /\ SubSeq(targets', 1, n) = Without(targets, h)
                            /\ IsSplitChild(targets'[n + 1],
                                            targets[h].wheelAngle - SPLIT_ANGLE,
                                            targets[h].splitCount + 1)
                            /\ IsSplitChild(targets'[n + 2],
                                            targets[h].wheelAngle + SPLIT_ANGLE,
                                            targets[h].splitCount + 1)
                       ELSE targets' = Without(targets, h)]_vars

(* a Split target of depth MAX_SPLITS has just been hit: of the two
   children of one depth-1 target a single one is left *)
C14_Witness ==
    /\ pc = "checkCollisions"
    /\ lastHit.type = "SPLIT"
    /\ Cardinality({ i \in 1..Len(targets) :
                        targets[i].type = "SPLIT"
                           /\ targets[i].splitCount = MAX_SPLITS }) = 1

----------------------------------------------------------------------------
(* C15: checkCollision of a Ghost target is false for every arrow position
   while the target is invisible, and while it is visible it is exactly the
   normal radius check: the target is active and the distance is below
   size + 0.2.  An arrow hits a Ghost target only when one is visible. *)
C15_GhostCollision ==
    /\ [](\A i \in 1..Len(targets) :
             targets[i].type = "GHOST" =>
                \A distance \in DistanceSamples :
                   CheckCollision(targets[i], distance)
                      <=> (/\ targets[i].isVisible
                           /\ targets[i].isActive
                           /\ distance < targets[i].size + 2000))
    /\ [][(DirectHit /\ lastHit'.type = "GHOST") =>
             \E i \in 1..Len(targets) :
                /\ targets[i].type = "GHOST"
                /\ targets[i].isVisible
                /\ targets[i].isActive]_vars

(* a collision scan runs over an active Ghost target that is invisible *)
C15_Witness ==
    /\ pc = "checkCollisions"
    /\ arrowIdx <= Len(arrows)
    /\ \E i \in 1..Len(targets) :
          /\ targets[i].type = "GHOST"
          /\ targets[i].isActive
          /\ ~targets[i].isVisible

----------------------------------------------------------------------------
(* the points onHit can report for target t *)
AwardPoints(t) ==
    IF t.type = "MYSTERY"
    THEN { MysteryRewards[k].points : k \in 1..Len(MysteryRewards) }
    ELSE { t.points }

(* the targets other than h that the step deactivated; the target at index
   i is at index i - 1 after the splice of h when i > h *)
Destroyed(h) ==
    { i \in (1..Len(targets)) \ {h} :
         /\ targets[i].isActive
         /\ ~targets'[IF i < h THEN i ELSE i - 1].isActive }

(* C16: when an arrow hits an Explosive target, every other target is either
   left untouched or, if it was active, destroyed: deactivated in place with
   its points awarded (times the score and combo multipliers), and gone from
   the wheel after the next updateTargets pass as every deactivated target
   is.  The special effect of a destroyed target is not triggered: no split
   children are pushed, no further target is deactivated for a destroyed
   Explosive target, no multiball timer and no pickup is created. *)
C16_SingleLevelChain ==
    [][/\ (DirectHit /\ lastHit'.type = "EXPLOSIVE") =>
             \E h \in 1..Len(targets) :
                /\ targets[h].type = "EXPLOSIVE"
                /\ targets[h].isActive
                /\ Len(targets') = Len(targets) - 1
                /\ \A i \in (1..Len(targets)) \ {h} :
                      LET after == targets'[IF i < h THEN i ELSE i - 1]
                      IN  \/ after = targets[i]
                          \/ /\ targets[i].isActive
                             /\ after = [targets[i] EXCEPT !.isActive = FALSE]
                /\ \E pts \in [Destroyed(h) ->
                              UNION { AwardPoints(targets[i]) :
                                         i \in Destroyed(h) }] :
                      /\ \A i \in Destroyed(h) : pts[i] \in AwardPoints(targets[i])
                      /\ score' = score + lastHit'.scoreGain
                                    + SumOver(Destroyed(h),
                                         [i \in Destroyed(h) |->
                                            Round(pts[i] * scoreMultiplier'
                                                    * comboMultiplier', Scale)])
                /\ timers' = timers
                /\ powerUps' = powerUps
       /\ pc = "updateTargets"
             => \A i \in 1..Len(targets') : targets'[i].isActive]_vars

(* the hit of an Explosive target has just destroyed a Split target and a
   Mystery target and left a third target untouched *)
C16_Witness ==
    /\ pc = "checkCollisions"
    /\ lastHit.type = "EXPLOSIVE"
    /\ lastHit.chainGain > 0
    /\ \E i, j, k \in 1..Len(targets) :
          /\ targets[i].type = "SPLIT" /\ ~targets[i].isActive
          /\ targets[j].type = "MYSTERY" /\ ~targets[j].isActive
          /\ targets[k].isActive

----------------------------------------------------------------------------
(* C17: when an arrow flagged explosive hits a target, the area and chain
   logic of an Explosive target (the explosion of handleSpecialTargetEffect)
   is triggered, whether or not the struck target is itself Explosive. *)
C17_ExplosiveArrowExplodes ==
    [][(/\ pc = "checkCollisions"
        /\ DirectHit
        /\ arrows[arrowIdx].isExplosive)
       => lastHit'.explosion]_vars

----------------------------------------------------------------------------
(* sequence p is a prefix of sequence s *)
IsPrefix(p, s) == Len(p) <= Len(s) /\ SubSeq(s, 1, Len(p)) = p

(* C18: an effect leaves the ledger only in an updatePowerUps pass, and that
   pass removes exactly the effects with now - startTime >= duration: none
   earlier, and none is kept longer.  Every other change of the ledger
   appends an effect that starts now; the effects already there are never
   merged, refreshed or extended, so two effects of one type coexist and
   each leaves at its own startTime + duration. *)
C18_LedgerExpiry ==
    [][/\ IF pc = "updatePowerUps"
          THEN IsPrefix(SelectSeq(activePowerUps,
                                  LAMBDA e : now - e.startTime < e.duration),
                        activePowerUps')
          ELSE IsPrefix(activePowerUps, activePowerUps')
       /\ \A i \in 1..Len(activePowerUps') :
             \/ activePowerUps'[i].startTime = now
             \/ \E j \in 1..Len(activePowerUps) :
                   activePowerUps'[i] = activePowerUps[j]]_vars

(* two effects of one type with different start times are in the ledger *)
C18_Witness ==
    \E i, j \in 1..Len(activePowerUps) :
        /\ activePowerUps[i].type = activePowerUps[j].type
        /\ activePowerUps[i].startTime < activePowerUps[j].startTime

----------------------------------------------------------------------------
(* the step launches the arrow of pool slot i *)
LaunchedSlot(i) ==
    /\ shotsFired' = shotsFired + 1
    /\ i \in 1..Len(arrows')
    /\ arrows'[i].active
    /\ i > Len(arrows) \/ ~arrows[i].active

(* C19: a launched arrow is flagged explosive exactly when an
   explosive-arrows effect is in the ledger at the shot, also when the arrow
   is a pooled one that was explosive in an earlier flight; the flag of an
   arrow changes at no other step. *)
C19_ExplosiveFlag ==
    [][/\ \A i \in 1..Len(arrows') :
             LaunchedSlot(i) =>
                (arrows'[i].isExplosive
                    <=> \E k \in 1..Len(activePowerUps) :
                           activePowerUps[k].type = "EXPLOSIVE_ARROWS")
       /\ \A i \in 1..Len(arrows) :
             arrows'[i].isExplosive # arrows[i].isExplosive
                => LaunchedSlot(i)]_vars

(* the single pooled arrow is in its second flight, launched just now with
   no explosive-arrows effect left in the ledger after one has run out *)
C19_Witness ==
    /\ shotsFired = 2
    /\ Len(arrows) = 1
    /\ arrows[1].active
    /\ ~arrows[1].isExplosive
    /\ lastArrowShot = now
    /\ now >= StartTime + EXPLOSIVE_ARROWS_DURATION
    /\ activePowerUps = << >>
    /\ \E p \in 1..Len(powerUps) :
          powerUps[p].type = "EXPLOSIVE_ARROWS" /\ ~powerUps[p].isActive

----------------------------------------------------------------------------
(* the step activates an arrow, counts a shot or moves the last-shot time *)
ShotEffect ==
    \/ shotsFired' # shotsFired
    \/ lastArrowShot' # lastArrowShot
    \/ \E i \in 1..Len(arrows') :
          arrows'[i].active /\ (i > Len(arrows) \/ ~arrows[i].active)

(* C20: an arrow is launched only if at least the cooldown has elapsed since
   the last successful shot, the cooldown being 500 ms, or 150 ms (500 x 0.3)
   while a rapid-fire effect is in the ledger; a fire intent inside the
   cooldown activates no arrow and leaves the shots-fired counter and the
   last-shot time unchanged.  A launch does all three: one arrow activated,
   one shot counted, the last-shot time set to now. *)
C20_Cooldown ==
    [][ShotEffect =>
          /\ now - lastArrowShot
                >= (IF \E k \in 1..Len(activePowerUps) :
                          activePowerUps[k].type = "RAPID_FIRE"
                    THEN 150 ELSE 500)
          /\ shotsFired' = shotsFired + 1
          /\ lastArrowShot' = now
          /\ Cardinality({ i \in 1..Len(arrows') : arrows'[i].active })
                = Cardinality({ i \in 1..Len(arrows) : arrows[i].active }) + 1]_vars

(* the second shot was launched 150 ms after construction, under rapid
   fire, so at most 150 ms after the first *)
C20_Witness ==
    /\ shotsFired = 2
    /\ lastArrowShot = StartTime + 150
    /\ \E k \in 1..Len(activePowerUps) : activePowerUps[k].type = "RAPID_FIRE"

----------------------------------------------------------------------------
(* the number of active arrows of a pool *)
ActiveArrowCount(arrs) == Cardinality({ i \in 1..Len(arrs) : arrs[i].active })

(* C21: the arrow pool never shrinks; a launch activates exactly one arrow,
   the first inactive pool entry when there is one, and appends an entry
   only when every pooled arrow is active, so whenever the pool grows all
   its arrows are active at once; every other change of an arrow only
   clears its active flag. *)
C21_ArrowPool ==
    [][/\ Len(arrows') >= Len(arrows)
       /\ Len(arrows') > Len(arrows)
             => /\ Len(arrows') = Len(arrows) + 1
                /\ shotsFired' = shotsFired + 1
                /\ ActiveArrowCount(arrows) = Len(arrows)
                /\ ActiveArrowCount(arrows') = Len(arrows')
       /\ shotsFired' = shotsFired + 1
             => /\ ActiveArrowCount(arrows') = ActiveArrowCount(arrows) + 1
                /\ \A i \in 1..Len(arrows) :
                      (~arrows[i].active /\ \A j \in 1..(i - 1) : arrows[j].active)
                         => arrows'[i].active
       /\ shotsFired' = shotsFired
             => \A i \in 1..Len(arrows) :
                   \/ arrows'[i] = arrows[i]
                   \/ arrows'[i] = [arrows[i] EXCEPT !.active = FALSE]]_vars

(* the third shot has reused a parked arrow of a pool of two *)
C21_Witness ==
    /\ shotsFired = 3
    /\ Len(arrows) = 2
    /\ lastArrowShot = now
    /\ ActiveArrowCount(arrows) >= 1

----------------------------------------------------------------------------
(* one iteration of the outer forEach of checkCollisions *)
ArrowScanned == pc = "checkCollisions" /\ pc' = "checkCollisions"

(* the pickups the step deactivated *)
Collected ==
    { p \in 1..Len(powerUps) : powerUps[p].isActive /\ ~powerUps'[p].isActive }

(* C22: within one tick an arrow is scanned once and directly hits at most
   one target; an arrow that has hit a target is inactive and collects no
   pickup in that tick, and an arrow that hits nothing collects at most one
   pickup, producing one effect. *)
C22_OneHitPerArrow ==
    [][ArrowScanned =>
          /\ arrowIdx' > arrowIdx
          /\ shotsHit' <= shotsHit + 1
          /\ Cardinality(Collected) <= 1
          /\ Len(activePowerUps') = Len(activePowerUps) + Cardinality(Collected)
          /\ DirectHit => /\ ~arrows'[arrowIdx].active
                          /\ Collected = {}
          /\ Collected # {} => ~arrows'[arrowIdx].active]_vars

(* an arrow has just hit a target while two pickups were active, and both
   still are *)
C22_Witness ==
    /\ pc = "checkCollisions"
    /\ lastHit.type # "NONE"
    /\ ActiveCount(powerUps) = 2

----------------------------------------------------------------------------
(* C23: the number of active pickups never exceeds MAX_ACTIVE_POWERUPS (3),
   whether spawnPowerUp is called by the interval timer of updatePowerUps or
   for the power-up reward of a Mystery target. *)
C23_PickupCap ==
    Cardinality({ p \in 1..Len(powerUps) : powerUps[p].isActive }) <= 3

(* a Mystery hit has drawn the power-up reward (the only one worth 10
   points) with three pickups active, and no fourth has appeared *)
C23_Witness ==
    /\ pc = "checkCollisions"
    /\ lastHit.type = "MYSTERY"
    /\ lastHit.points = 10
    /\ Len(powerUps) = 3
    /\ \A p \in 1..3 : powerUps[p].isActive

----------------------------------------------------------------------------
(* the effect activatePowerUp builds for pickup p of the current list *)
EffectOf(p) ==
    [type      |-> powerUps[p].type,
     startTime |-> now,
     duration  |-> GetPowerUpDuration(powerUps[p].type)]

(* the effects of the pickups in P, in list order *)
RECURSIVE EffectsOf(_)
EffectsOf(P) ==
    IF P = {} THEN << >>
    ELSE LET last == CHOOSE p \in P : \A q \in P : q <= p
         IN  Append(EffectsOf(P \ {last}), EffectOf(last))

(* C24: each pickup produces exactly one effect.  A step never turns an
   inactive pickup active again nor changes a pickup's type; the pickups a
   step deactivates (by player contact in updatePowerUps, by arrow contact in
   checkCollisions) each append one effect of the pickup's type with
   startTime = now and the type's duration, and nothing else is appended. *)
C24_OneEffectPerPickup ==
    [][ /\ Len(powerUps') >= Len(powerUps)
        /\ \A p \in 1..Len(powerUps) :
              /\ powerUps'[p].type = powerUps[p].type
              /\ ~powerUps[p].isActive => ~powerUps'[p].isActive
        /\ LET n == Cardinality(Collected)
               m == Len(activePowerUps')
           IN  /\ m >= n
               /\ SubSeq(activePowerUps', m - n + 1, m) = EffectsOf(Collected)
               /\ IF pc = "updatePowerUps"
                  THEN m - n <= Len(activePowerUps)
                  ELSE SubSeq(activePowerUps', 1, m - n) = activePowerUps
      ]_vars

(* the player has collected the only pickup in this tick, and an arrow of the
   same tick has been scanned afterwards: the pickup stays inactive and the
   ledger holds its single effect *)
C24_Witness ==
    /\ pc = "checkCollisions"
    /\ arrowZ # 0
    /\ Len(powerUps) = 1
    /\ ~powerUps[1].isActive
    /\ Len(activePowerUps) = 1
    /\ activePowerUps[1].startTime = now
    /\ activePowerUps[1].type = powerUps[1].type

----------------------------------------------------------------------------
(* a step of checkCollisions in which an arrow hits a Mystery target *)
MysteryHit ==
    /\ ArrowScanned
    /\ shotsHit' = shotsHit + 1
    /\ lastHit'.type = "MYSTERY"

ActiveMystery(tgts) ==
    Cardinality({ i \in 1..Len(tgts) : tgts[i].type = "MYSTERY" /\ tgts[i].isActive })

(* C25: every Mystery hit deactivates the target and draws one entry of the
   five-entry reward table (25, 50 or 100 points, 10 points with a power-up,
   0 points with extra targets); when the power-up entry is drawn, a power-up
   is produced: a new active pickup is on the field after the hit. *)
C25_MysteryRewardApplied ==
    [][MysteryHit =>
          /\ ActiveMystery(targets') = ActiveMystery(targets) - 1
          /\ lastHit'.points \in {25, 50, 100, 10, 0}
          /\ lastHit'.points = 10 =>
                /\ Len(powerUps') = Len(powerUps) + 1
                /\ powerUps'[Len(powerUps')].isActive
      ]_vars

----------------------------------------------------------------------------
(* a step in which one callback of spawnSpecialTargets runs *)
TimerFired == Len(timers') < Len(timers)

(* C26: after a Mystery hit drew the extra-targets entry, each of the three
   staggered timer callbacks, however interleaved with the frames, adds one
   target to the wheel. *)
C26_ExtraTargetsSpawned ==
    [][TimerFired => Len(targets') = Len(targets) + 1]_vars

----------------------------------------------------------------------------
(* C27: the force of a Magnetic target on an arrow at distance d is non-null
   exactly when the target is active and size < d < MAGNETIC_RANGE; it then
   points toward the target and has magnitude
   MAGNETIC_FORCE x (1 - d / MAGNETIC_RANGE), which strictly decreases as d
   grows; it is null for d >= range and for d <= size. *)
C27_MagneticForce ==
    /\ [](magneticForce.offset # 0 =>
             LET m == magneticForce
                 d == IF m.offset < 0 THEN 0 - m.offset ELSE m.offset
                 f == m.result.force
             IN  /\ ~m.result.null <=> (m.isActive /\ m.size < d /\ d < 30000)
                 /\ ~m.result.null =>
                       /\ f * m.offset < 0
                       /\ (IF f < 0 THEN 0 - f ELSE f) * 30000 = 30000 * (30000 - d)
                 /\ (d >= 30000 \/ d <= m.size) => m.result.null)
    /\ [][ (/\ ~magneticForce.result.null
            /\ ~magneticForce'.result.null
            /\ Abs(magneticForce'.offset) > Abs(magneticForce.offset))
           => Abs(magneticForce'.result.force) < Abs(magneticForce.result.force)
         ]_vars

(* an arrow just inside the range, on the positive side of an active
   target, is pulled back toward it by the weakest force *)
C27_Witness ==
    /\ magneticForce.isActive
    /\ magneticForce.offset = 29999
    /\ ~magneticForce.result.null
    /\ magneticForce.result.force = -1

----------------------------------------------------------------------------
OnField(type) == \E i \in 1..Len(obstacles) : obstacles[i].type = type

(* C28: every spawned obstacle, whatever its type, is eventually removed
   from the obstacle list: while the spawn timer is not due again, a field
   that holds an obstacle of a type leads to a field that holds none of that
   type. *)
C28_ObstaclesRemoved ==
    \A type \in {"FLYING_ROCK", "TREE", "BIRD"} :
        OnField(type) ~> ~OnField(type)

(* the part of C28 that holds: rocks and birds leave *)
C28_RocksAndBirdsRemoved ==
    \A type \in {"FLYING_ROCK", "BIRD"} :
        OnField(type) ~> ~OnField(type)

----------------------------------------------------------------------------
(* the frame moves on to the step named next *)
Enters(next) == pc # next /\ pc' = next

(* C29: within one tick the steps run in the order: arrow-target and
   arrow-pickup collisions with their hit effects (checkCollisions), then
   obstacle-player collisions (updateObstacles), then expiry of the timed
   effects (updatePowerUps), then spawning (remaining work of the update
   passes, spawnTarget in updateTargets), then the end of the tick. *)
C29_TickOrder ==
    [][ /\ Enters("checkCollisions") => pc = "idle"
        /\ Enters("updateObstacles") => pc = "checkCollisions"
        /\ Enters("updatePowerUps")  => pc = "updateObstacles"
        /\ Enters("updateTargets")   => pc = "updatePowerUps"
        /\ Enters("idle")            => pc = "updateTargets"
      ]_vars

(* the order of Game.animate: updatePowerUps (player pickups, expiry, pickup
   spawn), updateObstacles (collisions, removal, obstacle spawn),
   updateTargets (lifetimes, target spawn), checkCollisions, render *)
C29_AnimateOrder ==
    [][ /\ Enters("updatePowerUps")  => pc = "idle"
        /\ Enters("updateObstacles") => pc = "updatePowerUps"
        /\ Enters("updateTargets")   => pc = "updateObstacles"
        /\ Enters("checkCollisions") => pc = "updateTargets"
        /\ Enters("idle")            => pc = "checkCollisions"
      ]_vars

----------------------------------------------------------------------------
(* a and b are the same Target object: what neither onHit nor onMiss nor
   deactivate changes *)
SameTarget(a, b) ==
    /\ a.type = b.type
    /\ a.wheelAngle = b.wheelAngle
    /\ a.spawnTime = b.spawnTime
    /\ a.splitCount = b.splitCount

(* the scan of one arrow left the list as the staged changes make it: the
   hit target h spliced out, every other target still there and in order,
   the n children pushed behind them *)
StagedResult(h, n) ==
    /\ Len(targets') = Len(targets) - 1 + n
    /\ \A i \in (1..Len(targets)) \ {h} :
          SameTarget(targets'[IF i < h THEN i ELSE i - 1], targets[i])
    /\ \A c \in Len(targets)..Len(targets') :
          targets'[c].type = "SPLIT" /\ targets'[c].spawnTime = now

(* C30: the scan of checkCollisions for one arrow does not mutate the target
   list while it runs.  A scan without a hit leaves every target in its
   place; a scan with a hit changes the list only by the removal and the
   children staged during the scan (a chain explosion deactivates targets in
   place and removes or adds none); and the callbacks of spawnSpecialTargets
   never run between the start and the end of checkCollisions. *)
C30_ScanDoesNotMutate ==
    [][ /\ TimerFired => (pc = "idle" /\ pc' = "idle")
        /\ (~TimerFired /\ ArrowScanned) =>
              IF shotsHit' = shotsHit
              THEN /\ Len(targets') = Len(targets)
                   /\ \A i \in 1..Len(targets) : SameTarget(targets'[i], targets[i])
              ELSE \E h \in 1..Len(targets) :
                      /\ targets[h].isActive
                      /\ targets[h].type = lastHit'.type
                      /\ StagedResult(h, 0) \/ StagedResult(h, 2)
      ]_vars

(* a Mystery hit has scheduled the three callbacks, the first is due at
   once, and checkCollisions is still running with the list as the scan
   left it *)
C30_Witness ==
    /\ pc = "checkCollisions"
    /\ lastHit.type = "MYSTERY"
    /\ Len(timers) = 3
    /\ timers[1] <= now
    /\ \A i \in 1..Len(targets) : targets[i].type # "MYSTERY"

----------------------------------------------------------------------------
(* the age at which Target.update deactivates a target of the type,
   0 for the types that have none *)
LifetimeOf(type) ==
    CASE type = "GOLD"      -> 15000
      [] type = "SPEED"     -> 20000
      [] type = "BONUS"     -> 5000
      [] type = "MYSTERY"   -> 10000
      [] type = "GHOST"     -> 25000
      [] type = "MAGNETIC"  -> 20000
      [] type = "EXPLOSIVE" -> 15000
      [] OTHER              -> 0

(* the active targets the running update pass must keep *)
Unexpired ==
    { i \in 1..Len(targets) :
         /\ targets[i].isActive
         /\ \/ LifetimeOf(targets[i].type) = 0
            \/ now - targets[i].spawnTime < LifetimeOf(targets[i].type) }

(* C31: a target with a finite lifetime (Gold, Speed, Bonus, Mystery, Ghost,
   Magnetic, Explosive) is deactivated by the first update at which its age
   is >= its lifetime, awards nothing and is removed from the list in that
   same pass; Standard, Shrinking and Split targets never expire by age.  So
   an update pass keeps exactly the active targets that are younger than
   their lifetime, in order and still active, anything behind them is
   constructed in this pass, the score is unchanged, and no target that has
   reached its lifetime is left when the pass has run. *)
C31_LifetimeExpiry ==
    /\ [][pc = "updateTargets" =>
            LET kept == SelectIdx(targets, Unexpired)
            IN  /\ Len(targets') >= Len(kept)
                /\ \A k \in 1..Len(kept) :
                      /\ targets'[k].type = kept[k].type
                      /\ targets'[k].spawnTime = kept[k].spawnTime
                      /\ targets'[k].isActive
                /\ \A k \in (Len(kept) + 1)..Len(targets') :
                      targets'[k].spawnTime = now
                /\ score' = score
         ]_vars
    /\ [](pc = "checkCollisions" =>
            \A i \in 1..Len(targets) :
               (targets[i].isActive /\ LifetimeOf(targets[i].type) # 0)
                  => now - targets[i].spawnTime < LifetimeOf(targets[i].type))

(* the Ghost target the wheel started with has never been hit and is gone
   after the update pass at the instant its 25 s are over *)
C31_Witness ==
    /\ pc = "checkCollisions"
    /\ now = StartTime + 25000
    /\ shotsHit = 0
    /\ \A i \in 1..Len(targets) : targets[i].type # "GHOST"
    /\ \E i \in 1..Len(targets) : targets[i].spawnTime = StartTime + 20000

----------------------------------------------------------------------------
(* C32: updating a target never changes the stored wheel angle of a
   non-Speed target (its position is derived from stored angle + carrier
   rotation); only a Speed target's stored angle is advanced by its own
   update, by deltaTime x (speedMultiplier - 1) = 1.5 rad per second. *)
C32_StoredAngle ==
    [][pc = "updateTargets" =>
          LET kept == SelectIdx(targets, Unexpired)
          IN  \A k \in 1..Len(kept) :
                 k <= Len(targets') =>
                    targets'[k].wheelAngle =
                       IF kept[k].type = "SPEED"
                       THEN kept[k].wheelAngle + (deltaTime * 15) \div 10
                       ELSE kept[k].wheelAngle
      ]_vars

(* after a frame of 5 s the Speed target the wheel started with has advanced
   by 7.5 rad while the Gold target spawned beside it kept its angle *)
C32_Witness ==
    /\ pc = "checkCollisions"
    /\ now = StartTime + 5000
    /\ \E i, j \in 1..Len(targets) :
          /\ targets[i].type = "SPEED"
          /\ targets[i].wheelAngle = 1571 + 7500
          /\ targets[j].type = "GOLD"
          /\ targets[j].spawnTime = StartTime
          /\ targets[j].wheelAngle = 3142

----------------------------------------------------------------------------
(* angle a keeps pi/4 from every stored angle, as the rejection loop of
   spawnTarget tests it *)
KeepsDistance(a) ==
    \A i \in 1..Len(targets) :
       LET diff == IF a < targets[i].wheelAngle
                   THEN targets[i].wheelAngle - a ELSE a - targets[i].wheelAngle
       IN  diff >= 785 /\ diff <= 6283 - 785

(* C33: a call of spawnTarget (here: from a spawnSpecialTargets callback)
   that finds the wheel at its cap of 5, or finds no valid angle, or whose
   draw selects no variant, skips: the target list and all other game state
   stay as they are.  A call adds a target only below the cap and at an
   angle it found valid, and changes nothing else. *)
C33_SpawnSkips ==
    [][TimerFired =>
          /\ UNCHANGED << now, clockTime, pc, arrowIdx, arrows, powerUps,
                          activePowerUps, obstacles, score, scoreMultiplier,
                          comboCount, comboMultiplier, lastHitTime, isStunned,
                          stunnedUntil, lastArrowShot, lastTargetCheck,
                          lastObstacleSpawn, lastPowerUpSpawn, shotsFired,
                          shotsHit, lastHit >>
          /\ (Len(targets) >= 5 \/ \A a \in 0..6283 : ~KeepsDistance(a))
                => targets' = targets
          /\ targets' # targets =>
                /\ Len(targets) < 5
                /\ targets' = Append(targets, targets'[Len(targets')])
                /\ KeepsDistance(targets'[Len(targets')].wheelAngle)
      ]_vars

(* the Mystery hit scored 0 points (extra targets), all three callbacks have
   run, and the wheel that held four targets is at its cap: with three
   targets left after the hit, at least one callback was skipped *)
C33_Witness ==
    /\ pc = "idle"
    /\ shotsHit = 1
    /\ score = 0
    /\ timers = << >>
    /\ now = StartTime + 1000
    /\ Len(targets) = 5
    /\ \E i \in 1..5 : targets[i].type = "BONUS" /\ targets[i].wheelAngle = 5498

----------------------------------------------------------------------------
(* C34: in every reachable state the global score multiplier is 3 if at
   least one SCORE_MULTIPLIER effect is in the ledger and 1 otherwise, also
   when two such effects overlap. *)
C34_MultiplierMatchesLedger ==
    scoreMultiplier =
       IF \E e \in 1..Len(activePowerUps) :
             activePowerUps[e].type = "SCORE_MULTIPLIER"
       THEN 3 ELSE 1

----------------------------------------------------------------------------
(* C35: the combo multiplier used for a hit's award is the one that results
   from registering that same hit: the award g of a direct hit is
   round(points x scoreMultiplier x comboMultiplier'), so a hit after the
   window has lapsed is awarded with 1 and the n-th in-window hit with the
   multiplier of combo count n. *)
C35_AwardUsesOwnCombo ==
    [][DirectHit =>
          LET x == lastHit'.points * scoreMultiplier * comboMultiplier'
              g == score' - score - lastHit'.chainGain
          IN  /\ 2 * Scale * g - Scale <= 2 * x
              /\ 2 * x < 2 * Scale * g + Scale]_vars

----------------------------------------------------------------------------
(* C36: for each of the nine non-Standard variants there is a value of the
   random draw in [0, 1) for which the cumulative-probability selection of
   spawnTarget picks that variant. *)
C36_EveryVariantSpawnable ==
    \A type \in TargetTypes \ {"STANDARD"} :
       \E random \in TypeDraws(scenario) : SelectType(random) = type

(* what the selection does instead: every draw picks one of the first four
   entries of the table, whose chances add up to 1.05 *)
C36_OnlyFirstFour ==
    /\ \A random \in TypeDraws(scenario) :
          SelectType(random) \in {"GOLD", "SPEED", "BONUS", "SHRINKING"}
    /\ \A i \in 1..Len(targets) :
          targets[i].type \in {"STANDARD", "GOLD", "SPEED", "BONUS", "SHRINKING"}

----------------------------------------------------------------------------
(* the most a target can be awarded for *)
MaxAward(t) == CHOOSE p \in AwardPoints(t) : \A q \in AwardPoints(t) : q <= p

(* C37: no target contributes points more than once.  Points come only from
   targets that are active when the arrow is scanned: the directly hit
   target, which leaves the list, and the targets the chain deactivates in
   that step; a target that is already inactive is neither hit nor chained
   and stays inactive, also for the other arrows of the same tick. *)
C37_PointsOnce ==
    [][(ArrowScanned /\ ~TimerFired) =>
          IF ~DirectHit
          THEN /\ score' = score
               /\ \A i \in 1..Len(targets) :
                     ~targets[i].isActive => ~targets'[i].isActive
          ELSE \E h \in 1..Len(targets) :
                  /\ targets[h].isActive
                  /\ targets[h].type = lastHit'.type
                  /\ StagedResult(h, 0) \/ StagedResult(h, 2)
                  /\ \A i \in (1..Len(targets)) \ {h} :
                        ~targets[i].isActive =>
                           targets'[IF i < h THEN i ELSE i - 1] = targets[i]
                  /\ score' - score - lastHit'.scoreGain <=
                        SumOver(Destroyed(h),
                                [i \in Destroyed(h) |->
                                    Round(MaxAward(targets[i]) * scoreMultiplier'
                                            * comboMultiplier', Scale)])
                  /\ score' - score >= lastHit'.scoreGain
      ]_vars

(* the second arrow of a tick has scored a hit while a target destroyed by
   the explosion of the first arrow's hit is still in the list, inactive *)
C37_Witness ==
    /\ pc = "checkCollisions"
    /\ shotsHit = 2
    /\ lastHit.type # "EXPLOSIVE"
    /\ lastHitTime = now
    /\ \E i \in 1..Len(targets) : ~targets[i].isActive
    /\ \A i \in 1..Len(targets) : targets[i].type # "EXPLOSIVE"

----------------------------------------------------------------------------
(* C38: the number of active obstacles never exceeds MAX_ACTIVE_OBSTACLES
   (5) after any sequence of obstacle spawns, bird flocks of up to 3 birds
   included. *)
C38_ObstacleCap ==
    Cardinality({ o \in 1..Len(obstacles) : obstacles[o].isActive }) <= 5

(* C39: in every reachable state the number of registered hits is at most
   the number of shots fired, whatever the interleaving of fire intents and
   ticks and with arrows reused from the pool: every launch counts one shot
   and activates one arrow, and a hit spends the arrow that made it, so the
   hits and the arrows still in flight together never exceed the shots. *)
C39_HitsAtMostShots ==
    /\ shotsHit <= shotsFired
    /\ shotsHit + ActiveArrowCount(arrows) <= shotsFired

(* the one pooled arrow was launched twice and hit a target both times *)
C39_Witness ==
    /\ Len(arrows) = 1
    /\ shotsFired = 2
    /\ shotsHit = 2

====
